---- MODULE Spec2Model ----
(***************************************************************************)
(* ShipGL.Model (src/src/Scene/Model.js): the geometry packing done by     *)
(* initialize -- _initBuffers, _initMaterialTextures, _initNormalMatrices  *)
(* and _computeExtents -- over ShipGL.Buffer (src/src/Buffers/Buffer.js).  *)
(* Next to the model: a ShipGL.Buffer used on its own and the buffers      *)
(* ShipGL.BufferUtilities creates, the location cache of                   *)
(* ShipGL.ShaderProgram, and the rotation of ShipGL.DirectionalLight and   *)
(* ShipGL.PointLight, each under a specification of its own.  Further: the *)
(* frame loop and key book-keeping of ShipGL.BaseApp with the abstract     *)
(* methods of the base classes, the draw methods of ShipGL.Floor and       *)
(* ShipGL.SkyBox against the binding state of the rendering context, and   *)
(* a second call of ShipGL.Model.initialize.                               *)
(*                                                                         *)
(* Numbers.  Every JavaScript number of the scene description is held in   *)
(* fixed point: the integer n stands for the double n / Scale.  Three      *)
(* doubles that are no multiple of 1 / Scale get codes of their own:       *)
(* MAX_VALUE (Number.MAX_VALUE), NEG_MIN_VALUE (-Number.MIN_VALUE, the     *)
(* negative double nearest to zero) and Infinity.  The fp* operators do    *)
(* arithmetic on these codes the way IEEE doubles do.                      *)
(***************************************************************************)
EXTENDS Integers, Sequences, FiniteSets, TLC

\* ------------------------------------------------------------------ bounds
MaxMeshes == 2      \* meshes in a scene description
MaxVerts == 2       \* vertices (position triples) in one mesh
MaxNodes == 2       \* nodes in a scene description
MaxLen == 3         \* elements of an application buffer or array
MaxLookups == 2     \* location lookups of one name in the rendering context
MaxKeys == 2        \* key codes the keyboard sends
MaxFrames == 2      \* calls of run
MaxTime == 4        \* latest reading of the clock, in milliseconds

\* --------------------------------------------------------------- constants
Scale == 8                      \* fixed-point units per 1.0
Undefined == -1                 \* a numeric field that was never assigned
MAX_VALUE == 1000000000         \* code of Number.MAX_VALUE
Infinity == 2000000000          \* code of +Infinity
NEG_MIN_VALUE == -1             \* code of -Number.MIN_VALUE
F32Exact == 16777216            \* 2^24: integers up to it are exact floats
BYTES_PER_ELEMENT_U16 == 2      \* Uint16Array.BYTES_PER_ELEMENT
BYTES_PER_ELEMENT_F32 == 4      \* Float32Array.BYTES_PER_ELEMENT

\* ------------------------------------------------------------------- state
VARIABLES
    json,       \* this.json: meshes, materials, nodes (derived fields attached)
    vbo,        \* this.vbo: length, byteCount, the store of the GL buffer
    ibo,        \* this.ibo
    min,        \* this.min
    max,        \* this.max
    center,     \* this.center
    diagonal,   \* this.diagonal, held as the radicand: [sqrtOf |-> n]
    pc,         \* position inside initialize
    i,          \* loop variable i of _initBuffers
    vboSize,    \* local vboSize of _initBuffers
    iboSize,    \* local iboSize of _initBuffers
    writeIdx,   \* local writeIdx of _initBuffers
    glCalls,    \* backend calls issued so far, in order
    glError,    \* TRUE once the backend recorded INVALID_VALUE
    MatrixArray, \* glMatrix's MatrixArray: "Float32Array" or "Array"
    someBuffer, \* a ShipGL.Buffer of the application, outside any model
    program,    \* a ShipGL.ShaderProgram: the properties this[name] it holds
    glProgram,  \* its rawProgram in the rendering context
    light,      \* a ShipGL.Light, ShipGL.DirectionalLight or ShipGL.PointLight
    app,        \* a ShipGL.BaseApp, or an application derived from it
    thrown,     \* what the latest call of a method threw: a message or "none"
    drawable,   \* a ShipGL.Floor or ShipGL.SkyBox and the position inside its draw
    context,    \* the rendering context the drawable draws with: its bindings
    firstCall   \* the derived data as the first call of initialize left it

\* The state of ShipGL.Model.initialize.
modelVars == <<json, vbo, ibo, min, max, center, diagonal, pc, i, vboSize,
               iboSize, writeIdx, glCalls, glError, MatrixArray>>

\* The objects ShipGL.Model.initialize does not touch.
\* The application, the drawable with its rendering context, and the record
\* of the first call of initialize.
extras == <<app, thrown, drawable, context, firstCall>>

others == <<someBuffer, program, glProgram, light, extras>>

vars == <<json, vbo, ibo, min, max, center, diagonal, pc, i, vboSize, iboSize,
          writeIdx, glCalls, glError, MatrixArray, someBuffer, program,
          glProgram, light, app, thrown, drawable, context, firstCall>>

\* ----------------------------------------------------------------- helpers
\* Array.prototype.slice(from, to) on a 0-based array held as a sequence.
Slice(arr, from, to) ==
    LET hi == IF to < Len(arr) THEN to ELSE Len(arr)
    IN  IF from >= hi THEN <<>> ELSE SubSeq(arr, from + 1, hi)

Abs(x) == IF x < 0 THEN -x ELSE x

IsHuge(x) == Abs(x) >= MAX_VALUE \div 2
IsTiny(x) == x # 0 /\ Abs(x) < Scale \div 2
Sign(x) == IF x < 0 THEN -1 ELSE 1

\* A double stored into a Float32Array element: rounded to the nearest float.
\* Number.MAX_VALUE overflows to Infinity, Number.MIN_VALUE underflows to
\* zero, integers up to 2^24 are exact, larger ones lose their low bit.
ToFloat32(x) ==
    LET Rounded(v) ==
            IF IsHuge(v) THEN Sign(v) * Infinity
            ELSE IF IsTiny(v) THEN 0
            ELSE IF Abs(v) <= F32Exact THEN v
            ELSE LET r == Abs(v) % 4
                     a == CASE r = 0 -> Abs(v)
                            [] r = 1 -> Abs(v) - 1
                            [] r = 2 -> Abs(v)
                            [] r = 3 -> Abs(v) + 1
                 IN  Sign(v) * a
    IN  CHOOSE r \in { Rounded(v) : v \in {x} } : TRUE

\* new Uint16Array(array): each number taken modulo 2^16.
ToUint16(x) == x % 65536

ConvertArray(ArrayType, array) ==
    [e \in 1..Len(array) |->
        IF ArrayType = "Float32Array" THEN ToFloat32(array[e])
                                      ELSE ToUint16(array[e])]

Zeros(n) == [e \in 1..n |-> 0]
\* ------------------------------------------------------ scene descriptions
\* A parsed mesh as JSON.parse leaves it: the derived fields are not there yet
\* (booleans read as falsy, numbers as Undefined).  vertexTexCoordinates is
\* the list of channels; a missing list is the empty list, which the guard
\* of _initBuffers cannot tell apart.
NewMesh(pos, nrm, tcs, idx, mi) ==
    [vertexPositions |-> pos, vertexNormals |-> nrm,
     vertexTexCoordinates |-> tcs, indices |-> idx, materialIndex |-> mi,
     hasTexture |-> FALSE, hasIndices |-> FALSE, stride |-> Undefined,
     positionsOffset |-> Undefined, normalsOffset |-> Undefined,
     texCoordsOffset |-> Undefined, indicesOffset |-> Undefined,
     indicesByteOffset |-> Undefined]

NewMaterial(tex) == [diffuseTexture |-> tex, texture |-> FALSE]

NewNode(mat, mis) ==
    [modelMatrix |-> mat, meshIndices |-> mis, normalMatrix |-> <<>>]

\* The shapes a mesh of a scene file comes in: the normals array as long as
\* the positions array, one vertex shorter or one vertex longer; the texture
\* coordinates missing, an empty channel 0, matching, one vertex short or one
\* vertex long; with or without indices; pointing at material 0 or 1.
MeshKinds ==
    { [normSkew |-> 0,  texMode |-> "absent", indexed |-> FALSE, materialIndex |-> 0],
      [normSkew |-> 0,  texMode |-> "match",  indexed |-> TRUE,  materialIndex |-> 0],
      [normSkew |-> 0,  texMode |-> "match",  indexed |-> FALSE, materialIndex |-> 1],
      [normSkew |-> -1, texMode |-> "absent", indexed |-> TRUE,  materialIndex |-> 1],
      [normSkew |-> 1,  texMode |-> "match",  indexed |-> FALSE, materialIndex |-> 0],
      [normSkew |-> 0,  texMode |-> "short",  indexed |-> FALSE, materialIndex |-> 0],
      [normSkew |-> 0,  texMode |-> "long",   indexed |-> TRUE,  materialIndex |-> 1],
      [normSkew |-> 0,  texMode |-> "empty",  indexed |-> FALSE, materialIndex |-> 0] }

Clamp0(n) == IF n < 0 THEN 0 ELSE n

\* Mesh number m (0-based) with nv vertices of the given kind.  All elements
\* of a scene are different numbers, so a misplaced element shows.
MakeMesh(m, nv, kind) ==
    LET base == 100 * (m + 1)
        nn   == Clamp0(3 * (nv + kind.normSkew))
        nt   == CASE kind.texMode = "match" -> 2 * nv
                  [] kind.texMode = "short" -> Clamp0(2 * (nv - 1))
                  [] kind.texMode = "long"  -> 2 * (nv + 1)
                  [] OTHER -> 0
        ni   == IF kind.indexed THEN nv + 1 ELSE 0
    IN  NewMesh([e \in 1..(3 * nv) |-> base + e],
                [e \in 1..nn |-> base + 30 + e],
                IF kind.texMode = "absent" THEN <<>>
                ELSE << [e \in 1..nt |-> base + 60 + e] >>,
                [e \in 1..ni |-> IF m % 2 = 0 THEN e - 1 ELSE 65536 - e],
                kind.materialIndex)

\* 4x4 matrices, column-major as glMatrix holds them, entries in fixed point.
Identity == <<Scale, 0, 0, 0,  0, Scale, 0, 0,  0, 0, Scale, 0,  0, 0, 0, Scale>>
Translate500 ==
    <<Scale, 0, 0, 0,  0, Scale, 0, 0,  0, 0, Scale, 0,  5 * Scale, 0, 0, Scale>>
RotateZ90 == <<0, Scale, 0, 0,  -Scale, 0, 0, 0,  0, 0, Scale, 0,  0, 0, 0, Scale>>
Scale2 ==
    <<2 * Scale, 0, 0, 0,  0, 2 * Scale, 0, 0,  0, 0, 2 * Scale, 0,  0, 0, 0, Scale>>
Matrices == {Identity, Translate500, RotateZ90, Scale2}

MaterialLists ==
    { <<NewMaterial(<<"a.png">>), NewMaterial(<<>>)>>,
      <<NewMaterial(<<>>), NewMaterial(<<"a.png">>)>> }

NewBuffer(BufferType, ArrayType, bpe) ==
    [BufferType |-> BufferType, ArrayType |-> ArrayType, bytesPerElement |-> bpe,
     length |-> 0, byteCount |-> 0, store |-> <<>>, bound |-> FALSE]

\* The fields the constructor ShipGL.Model sets, json apart.
Constructed ==
    /\ vbo = NewBuffer("ARRAY_BUFFER", "Float32Array", BYTES_PER_ELEMENT_F32)
    /\ ibo = NewBuffer("ELEMENT_ARRAY_BUFFER", "Uint16Array", BYTES_PER_ELEMENT_U16)
    /\ min = <<0, 0, 0>>
    /\ max = <<0, 0, 0>>
    /\ center = <<0, 0, 0>>
    /\ diagonal = [sqrtOf |-> 0]
    /\ pc = "constructed"
    /\ i = 0
    /\ vboSize = 0
    /\ iboSize = 0
    /\ writeIdx = 0
    /\ glCalls = <<>>
    /\ glError = FALSE

\* An object the application did not construct.
NoObject == [kind |-> "none"]

\* No method was called yet.
NothingThrown == [call |-> "none", message |-> "none"]

\* No application object, nothing thrown, nothing to draw, and initialize
\* not yet called.
ExtrasIdle ==
    /\ app = NoObject
    /\ thrown = NothingThrown
    /\ drawable = NoObject
    /\ context = NoObject
    /\ firstCall = NoObject

\* The application holds nothing but the model: one buffer, just constructed,
\* no shader program and no light.
OthersIdle ==
    /\ someBuffer = NewBuffer("ARRAY_BUFFER", "Float32Array", BYTES_PER_ELEMENT_F32)
    /\ program = NoObject
    /\ glProgram = NoObject
    /\ light = NoObject
    /\ ExtrasIdle

\* Scene files of up to MaxMeshes meshes of every kind, seen by one node with
\* the identity transform.  The first mesh has nv0 vertices and each later
\* one a vertex more, starting over at none after MaxVerts.
Init ==
    /\ \E n \in 0..MaxMeshes :
       \E nv0 \in 0..MaxVerts :
       \E kinds \in [1..n -> MeshKinds] :
       \E mats \in MaterialLists :
            json = [meshes |-> [m \in 1..n |->
                        MakeMesh(m - 1, (nv0 + m - 1) % (MaxVerts + 1), kinds[m])],
                    materials |-> mats,
                    nodes |-> << NewNode(Identity, [m \in 1..n |-> m - 1]) >>]
    /\ MatrixArray = "Float32Array"
    /\ Constructed
    /\ OthersIdle
\* ------------------------------------------------------------ ShipGL.Buffer
\* One backend call as the rendering context receives it.  offset and count
\* are in elements; mesh is the mesh being processed (Undefined outside the
\* mesh loops).
GlCall(op, target, offset, count, mesh) ==
    [op |-> op, target |-> target, offset |-> offset, count |-> count, mesh |-> mesh]

\* gl.bindBuffer(BufferType, buffer) as the rendering context receives it:
\* buffer is the buffer's rawBuffer in bind and null in unbind.
GlBind(target, buffer) ==
    [op |-> "bindBuffer", target |-> target, offset |-> 0, count |-> 0,
     mesh |-> Undefined, buffer |-> buffer]

\* Buffer.bind / Buffer.unbind: gl.bindBuffer(BufferType, rawBuffer | null).
BufferBind(buf) == [buf EXCEPT !.bound = TRUE]
BufferUnbind(buf) == [buf EXCEPT !.bound = FALSE]

\* Faulty variant of BufferAllocate: the new elements are added to the ones
\* the buffer has.  C27 must fail on it.
BufferAllocate_Grows(buf, length) ==
    [buf EXCEPT !.length = buf.length + length,
                !.byteCount = buf.bytesPerElement * (buf.length + length),
                !.store = Zeros(buf.length + length)]

\* Buffer.allocate(length): sets length and byteCount; gl.bufferData gives
\* the bound buffer a zero-filled store of byteCount bytes.
BufferAllocate(buf, length) ==
    [buf EXCEPT !.length = length,
                !.byteCount = buf.bytesPerElement * length,
                !.store = Zeros((buf.bytesPerElement * length) \div buf.bytesPerElement)]

\* gl.bufferSubData(target, byteOffset, data) raises INVALID_VALUE and writes
\* nothing when the data would reach past the end of the store.
BufferWriteFails(buf, array, index) ==
    (IF index = Undefined THEN 0 ELSE index) + Len(array) > Len(buf.store)

\* Faulty variant of BufferWrite: the index is dropped and the array lands at
\* the start of the store.  C8 must fail on it.
BufferWrite_AtStart(buf, array, index) ==
    LET data == ConvertArray(buf.ArrayType, array)
    IN  IF Len(array) > Len(buf.store) THEN buf
        ELSE [buf EXCEPT !.store =
                [e \in 1..Len(buf.store) |->
                    IF e <= Len(data) THEN data[e] ELSE buf.store[e]]]

\* Faulty variant of BufferWrite: the elements around the written range are
\* cleared.  C16 must fail on it.
BufferWrite_Clears(buf, array, index) ==
    LET idx  == IF index = Undefined THEN 0 ELSE index
        data == ConvertArray(buf.ArrayType, array)
    IN  IF BufferWriteFails(buf, array, index) THEN buf
        ELSE [buf EXCEPT !.store =
                [e \in 1..Len(buf.store) |->
                    IF e > idx /\ e <= idx + Len(data) THEN data[e - idx] ELSE 0]]

\* Buffer.write(array, index): index = index || 0, then gl.bufferSubData of
\* the array converted to the buffer's ArrayType at index * bytesPerElement.
BufferWrite(buf, array, index) ==
    LET idx  == IF index = Undefined THEN 0 ELSE index
        data == ConvertArray(buf.ArrayType, array)
        off  == (idx * buf.bytesPerElement) \div buf.bytesPerElement
    IN  IF BufferWriteFails(buf, array, index) THEN buf
        ELSE CHOOSE r \in
                { [buf EXCEPT !.store =
                     [e \in 1..Len(buf.store) |->
                         IF e > off /\ e <= off + Len(d) THEN d[e - off]
                         ELSE buf.store[e]]] : d \in {data} } : TRUE

\* ------------------------------------------------- ShipGL.Model.initialize
meshes == json.meshes
NumMeshes == Len(json.meshes)

\* initialize enters _initBuffers: the locals of its first statement.
StartInitBuffers ==
    /\ pc = "constructed"
    /\ pc' = "size"
    /\ i' = 0
    /\ vboSize' = 0
    /\ iboSize' = 0
    /\ UNCHANGED <<json, vbo, ibo, min, max, center, diagonal, writeIdx,
                   glCalls, glError, MatrixArray, others>>

\* The mesh record after one iteration of the size loop, and what the
\* iteration adds to vboSize and iboSize.
HasTexCoords(curMesh) ==
    /\ Len(curMesh.vertexTexCoordinates) > 0
    /\ Len(curMesh.vertexTexCoordinates[1]) > 0

\* Faulty variant of SizedHasTexture: the material is not consulted.  C1 must
\* fail on it.
SizedHasTexture_NoMaterial(curMesh) == HasTexCoords(curMesh)

SizedHasTexture(curMesh) ==
    IF HasTexCoords(curMesh)
    THEN Len(json.materials[curMesh.materialIndex + 1].diffuseTexture) > 0
    ELSE FALSE

SizedStride(curMesh) == IF SizedHasTexture(curMesh) THEN 3 + 3 + 2 ELSE 3 + 3

SizedVboAdd(curMesh) ==
    Len(curMesh.vertexPositions) + Len(curMesh.vertexNormals)
    + (IF SizedHasTexture(curMesh) THEN Len(curMesh.vertexTexCoordinates[1]) ELSE 0)

SizedHasIndices(curMesh) == Len(curMesh.indices) > 0

\* Faulty variant of SizedMesh: the byte offset is the element offset.  C7
\* must fail on it.
SizedMesh_ElementBytes(curMesh, ibs) ==
    LET m1 == [curMesh EXCEPT !.hasTexture = SizedHasTexture(curMesh),
                              !.stride = SizedStride(curMesh),
                              !.hasIndices = SizedHasIndices(curMesh)]
    IN  IF SizedHasIndices(curMesh)
        THEN [m1 EXCEPT !.indicesOffset = ibs, !.indicesByteOffset = ibs]
        ELSE m1

SizedMesh(curMesh, ibs) ==
    LET m1 == [curMesh EXCEPT !.hasTexture = SizedHasTexture(curMesh),
                              !.stride = SizedStride(curMesh),
                              !.hasIndices = SizedHasIndices(curMesh)]
    IN  IF SizedHasIndices(curMesh)
        THEN [m1 EXCEPT !.indicesOffset = ibs,
                        !.indicesByteOffset = BYTES_PER_ELEMENT_U16 * ibs]
        ELSE m1

\* One iteration of the first loop of _initBuffers (lines 175-211).
SizeMesh ==
    /\ pc = "size"
    /\ i < NumMeshes
    /\ LET curMesh == meshes[i + 1]
       IN  /\ json' = [json EXCEPT !.meshes[i + 1] = SizedMesh(curMesh, iboSize)]
           /\ vboSize' = vboSize + SizedVboAdd(curMesh)
           /\ iboSize' = iboSize + (IF SizedHasIndices(curMesh)
                                    THEN Len(curMesh.indices) ELSE 0)
    /\ i' = i + 1
    /\ UNCHANGED <<vbo, ibo, min, max, center, diagonal, pc, writeIdx,
                   glCalls, glError, MatrixArray, others>>

\* Faulty variant of AllocateBuffers: each buffer is allocated right after it
\* is bound.  C24 must fail on it.
AllocateBuffers_Interleaved ==
    /\ pc = "size"
    /\ i = NumMeshes
    /\ vbo' = BufferAllocate(BufferBind(vbo), vboSize)
    /\ ibo' = BufferAllocate(BufferBind(ibo), iboSize)
    /\ glCalls' = glCalls \o
          << GlBind("vbo", "rawBuffer"),
             GlCall("bufferData", "vbo", 0, vboSize, Undefined),
             GlBind("ibo", "rawBuffer"),
             GlCall("bufferData", "ibo", 0, iboSize, Undefined) >>
    /\ writeIdx' = 0
    /\ i' = 0
    /\ pc' = "write"
    /\ UNCHANGED <<json, min, max, center, diagonal, vboSize, iboSize, glError,
                   MatrixArray, others>>

\* Lines 213-220: bind both buffers, allocate both, reset the write cursor.
AllocateBuffers ==
    /\ pc = "size"
    /\ i = NumMeshes
    /\ vbo' = BufferAllocate(BufferBind(vbo), vboSize)
    /\ ibo' = BufferAllocate(BufferBind(ibo), iboSize)
    /\ glCalls' = glCalls \o
          << GlBind("vbo", "rawBuffer"),
             GlBind("ibo", "rawBuffer"),
             GlCall("bufferData", "vbo", 0, vboSize, Undefined),
             GlCall("bufferData", "ibo", 0, iboSize, Undefined) >>
    /\ writeIdx' = 0
    /\ i' = 0
    /\ pc' = "write"
    /\ UNCHANGED <<json, min, max, center, diagonal, vboSize, iboSize, glError,
                   MatrixArray, others>>

\* this.vbo.write(array, writeIdx) inside the vertex loop; st carries the
\* buffer, the write cursor, the backend calls and the error flag.
VboWrite(st, array, m) ==
    LET Written(s) ==
            [s EXCEPT !.buf = BufferWrite(s.buf, array, s.writeIdx),
                      !.calls = Append(s.calls,
                            GlCall("bufferSubData", "vbo", s.writeIdx, Len(array), m)),
                      !.err = s.err \/ BufferWriteFails(s.buf, array, s.writeIdx)]
    IN  CHOOSE r \in { Written(s) : s \in {st} } : TRUE

Advance(st, n) == CHOOSE r \in { [s EXCEPT !.writeIdx = s.writeIdx + n] : s \in {st} } : TRUE

\* The vertex loop of the write pass (lines 233-247), from loop variables j, k.
RECURSIVE WriteVertices(_, _, _, _, _)
WriteVertices(curMesh, m, j, k, st) ==
    IF ~(j < Len(curMesh.vertexPositions)) THEN st
    ELSE LET s1 == Advance(VboWrite(st, Slice(curMesh.vertexPositions, j, j + 3), m), 3)
             s2 == Advance(VboWrite(s1, Slice(curMesh.vertexNormals, j, j + 3), m), 3)
             s3 == IF curMesh.hasTexture
                   THEN Advance(VboWrite(s2,
                            Slice(curMesh.vertexTexCoordinates[1], k, k + 2), m), 2)
                   ELSE s2
         IN  WriteVertices(curMesh, m, j + 3,
                           IF curMesh.hasTexture THEN k + 2 ELSE k, s3)

\* Faulty variant of OffsetMesh: texCoordsOffset is attached to every mesh.
\* C6 must fail on it.
OffsetMesh_AlwaysTex(curMesh, wi) ==
    [curMesh EXCEPT !.positionsOffset = wi,
                    !.normalsOffset = 3 + wi,
                    !.texCoordsOffset = 6 + wi]

\* The mesh record with the offsets the write pass attaches (lines 225-231).
OffsetMesh(curMesh, wi) ==
    LET m1 == [curMesh EXCEPT !.positionsOffset = wi,
                              !.normalsOffset = 3 + wi]
    IN  IF curMesh.hasTexture THEN [m1 EXCEPT !.texCoordsOffset = 6 + wi] ELSE m1

\* One iteration of the second loop of _initBuffers (lines 221-253).
WriteMesh ==
    /\ pc = "write"
    /\ i < NumMeshes
    /\ \E curMesh \in { meshes[i + 1] } :
       \E st \in { WriteVertices(curMesh, i, 0, 0,
                    [buf |-> vbo, writeIdx |-> writeIdx, calls |-> glCalls,
                     err |-> glError]) } :
           /\ json' = [json EXCEPT !.meshes[i + 1] = OffsetMesh(curMesh, writeIdx)]
           /\ vbo' = st.buf
           /\ writeIdx' = st.writeIdx
           /\ IF curMesh.hasIndices
              THEN /\ ibo' = BufferWrite(ibo, curMesh.indices, curMesh.indicesOffset)
                   /\ glCalls' = Append(st.calls,
                        GlCall("bufferSubData", "ibo", curMesh.indicesOffset,
                               Len(curMesh.indices), i))
                   /\ glError' = (st.err \/ BufferWriteFails(ibo, curMesh.indices,
                                                             curMesh.indicesOffset))
              ELSE /\ ibo' = ibo
                   /\ glCalls' = st.calls
                   /\ glError' = st.err
    /\ i' = i + 1
    /\ UNCHANGED <<min, max, center, diagonal, pc, vboSize, iboSize, MatrixArray, others>>

\* Lines 255-256: unbind both buffers; _initBuffers returns.
UnbindBuffers ==
    /\ pc = "write"
    /\ i = NumMeshes
    /\ vbo' = BufferUnbind(vbo)
    /\ ibo' = BufferUnbind(ibo)
    /\ glCalls' = glCalls \o
          << GlBind("vbo", "null"),
             GlBind("ibo", "null") >>
    /\ pc' = "textures"
    /\ UNCHANGED <<json, min, max, center, diagonal, i, vboSize, iboSize,
                   writeIdx, glError, MatrixArray, others>>

\* Faulty variant of InitMaterialTextures: only the first material is
\* visited.  C15 must fail on it.
InitMaterialTextures_FirstOnly ==
    /\ pc = "textures"
    /\ json' = [json EXCEPT !.materials =
                  [m \in 1..Len(json.materials) |->
                     IF m = 1 /\ Len(json.materials[m].diffuseTexture) > 0
                     THEN [json.materials[m] EXCEPT !.texture = TRUE]
                     ELSE json.materials[m]]]
    /\ pc' = "normals"
    /\ UNCHANGED <<vbo, ibo, min, max, center, diagonal, i, vboSize, iboSize,
                   writeIdx, glCalls, glError, MatrixArray, others>>

\* _initMaterialTextures: a material with a diffuse texture gets a texture.
InitMaterialTextures ==
    /\ pc = "textures"
    /\ json' = [json EXCEPT !.materials =
                  [m \in 1..Len(json.materials) |->
                     IF Len(json.materials[m].diffuseTexture) > 0
                     THEN [json.materials[m] EXCEPT !.texture = TRUE]
                     ELSE json.materials[m]]]
    /\ pc' = "normals"
    /\ UNCHANGED <<vbo, ibo, min, max, center, diagonal, i, vboSize, iboSize,
                   writeIdx, glCalls, glError, MatrixArray, others>>
\* ------------------------------------------------- arithmetic on doubles
\* a + b.  A huge operand absorbs a smaller one, two huge ones of one sign
\* overflow; a tiny operand vanishes next to a normal one.
fpAdd(a, b) ==
    IF Abs(a) = Infinity THEN a
    ELSE IF Abs(b) = Infinity THEN b
    ELSE IF IsHuge(a) /\ IsHuge(b)
         THEN (IF Sign(a) = Sign(b) THEN Sign(a) * Infinity ELSE a + b)
    ELSE IF IsHuge(a) THEN a
    ELSE IF IsHuge(b) THEN b
    ELSE IF IsTiny(a) /\ ~IsTiny(b) /\ b # 0 THEN b
    ELSE IF IsTiny(b) /\ ~IsTiny(a) /\ a # 0 THEN a
    ELSE a + b

\* a * 0.5; a tiny value is rounded to the nearest multiple of MIN_VALUE,
\* ties to even.
fpHalf(a) ==
    IF Abs(a) = Infinity THEN a
    ELSE IF IsTiny(a)
         THEN LET h == Abs(a) \div 2
              IN  Sign(a) * (IF Abs(a) % 2 = 0 \/ h % 2 = 0 THEN h ELSE h + 1)
    ELSE Sign(a) * (Abs(a) \div 2)

\* a * b of two finite fixed-point numbers.
fpMul(a, b) == Sign(a) * Sign(b) * ((Abs(a) * Abs(b)) \div Scale)

\* a * a as the radicand of a distance, in units of 1 / Scale^2: the square
\* of a huge value overflows, the square of a tiny one underflows to zero.
fpSquare(a) ==
    IF IsHuge(a) THEN Infinity
    ELSE IF IsTiny(a) THEN 0
    ELSE a * a

\* A value stored into an element of a glMatrix vector or matrix.
ToMatrixArray(x) == IF MatrixArray = "Float32Array" THEN ToFloat32(x) ELSE x

\* --------------------------------------------------------------- glMatrix
\* vec3.createFrom(x, y, z)
Vec3CreateFrom(x, y, z) == <<ToMatrixArray(x), ToMatrixArray(y), ToMatrixArray(z)>>

\* mat4.multiplyVec3(mat, vec): the point vec (w = 1) transformed by mat.
Mat4MultiplyVec3(mat, vec) ==
    LET Transformed(m, x, y, z) ==
            << ToMatrixArray(fpMul(m[1], x) + fpMul(m[5], y) + fpMul(m[9], z) + m[13]),
               ToMatrixArray(fpMul(m[2], x) + fpMul(m[6], y) + fpMul(m[10], z) + m[14]),
               ToMatrixArray(fpMul(m[3], x) + fpMul(m[7], y) + fpMul(m[11], z) + m[15]) >>
    IN  CHOOSE r \in { Transformed(m, v[1], v[2], v[3]) : m \in {mat}, v \in {vec} } : TRUE

\* Faulty variant of Vec3Midpoint: the sum is not scaled by 0.5.  C11 must
\* fail on it.
Vec3Midpoint_NoScale(a, b) ==
    [c \in 1..3 |-> ToMatrixArray(fpAdd(a[c], b[c]))]

\* vec3.add(a, b, dest) followed by vec3.scale(dest, 0.5)
Vec3Midpoint(a, b) ==
    [c \in 1..3 |-> ToMatrixArray(fpHalf(ToMatrixArray(fpAdd(a[c], b[c]))))]

\* vec3.dist(a, b): the square root of the sum of the squared differences,
\* returned as its radicand.
Vec3Dist(a, b) ==
    LET sq == [c \in 1..3 |-> fpSquare(fpAdd(b[c], -a[c]))]
    IN  [sqrtOf |-> IF \E c \in 1..3 : sq[c] = Infinity THEN Infinity
                    ELSE sq[1] + sq[2] + sq[3]]

\* mat4.create()
Mat4Create == [e \in 1..16 |-> 0]

\* The determinant mat4.inverse computes, on the raw fixed-point entries
\* (so in units of 1 / Scale^4).
Mat4Det(a) ==
    LET b00 == a[1] * a[6] - a[2] * a[5]
        b01 == a[1] * a[7] - a[3] * a[5]
        b02 == a[1] * a[8] - a[4] * a[5]
        b03 == a[2] * a[7] - a[3] * a[6]
        b04 == a[2] * a[8] - a[4] * a[6]
        b05 == a[3] * a[8] - a[4] * a[7]
        b06 == a[9] * a[14] - a[10] * a[13]
        b07 == a[9] * a[15] - a[11] * a[13]
        b08 == a[9] * a[16] - a[12] * a[13]
        b09 == a[10] * a[15] - a[11] * a[14]
        b10 == a[10] * a[16] - a[12] * a[14]
        b11 == a[11] * a[16] - a[12] * a[15]
    IN  b00 * b11 - b01 * b10 + b02 * b09 + b03 * b08 - b04 * b07 + b05 * b06

\* cofactor * (1 / d) as a fixed-point number.
fpCofDiv(c, d) ==
    Sign(c) * Sign(d) * ((Abs(c) * Scale * Scale) \div Abs(d))

\* mat4.inverse(mat, dest): dest is left as it was when the determinant is 0.
Mat4Inverse(a, dest) ==
    LET b00 == a[1] * a[6] - a[2] * a[5]
        b01 == a[1] * a[7] - a[3] * a[5]
        b02 == a[1] * a[8] - a[4] * a[5]
        b03 == a[2] * a[7] - a[3] * a[6]
        b04 == a[2] * a[8] - a[4] * a[6]
        b05 == a[3] * a[8] - a[4] * a[7]
        b06 == a[9] * a[14] - a[10] * a[13]
        b07 == a[9] * a[15] - a[11] * a[13]
        b08 == a[9] * a[16] - a[12] * a[13]
        b09 == a[10] * a[15] - a[11] * a[14]
        b10 == a[10] * a[16] - a[12] * a[14]
        b11 == a[11] * a[16] - a[12] * a[15]
        d   == Mat4Det(a)
        cof == << a[6] * b11 - a[7] * b10 + a[8] * b09,
                  -a[2] * b11 + a[3] * b10 - a[4] * b09,
                  a[14] * b05 - a[15] * b04 + a[16] * b03,
                  -a[10] * b05 + a[11] * b04 - a[12] * b03,
                  -a[5] * b11 + a[7] * b08 - a[8] * b07,
                  a[1] * b11 - a[3] * b08 + a[4] * b07,
                  -a[13] * b05 + a[15] * b02 - a[16] * b01,
                  a[9] * b05 - a[11] * b02 + a[12] * b01,
                  a[5] * b10 - a[6] * b08 + a[8] * b06,
                  -a[1] * b10 + a[2] * b08 - a[4] * b06,
                  a[13] * b04 - a[14] * b02 + a[16] * b00,
                  -a[9] * b04 + a[10] * b02 - a[12] * b00,
                  -a[5] * b09 + a[6] * b07 - a[7] * b06,
                  a[1] * b09 - a[2] * b07 + a[3] * b06,
                  -a[13] * b03 + a[14] * b01 - a[15] * b00,
                  a[9] * b03 - a[10] * b01 + a[11] * b00 >>
    IN  CHOOSE r \in { IF dv = 0 THEN dest
                       ELSE [e \in 1..16 |-> ToMatrixArray(fpCofDiv(cv[e], dv))]
                       : cv \in {cof}, dv \in {d} } : TRUE

\* Faulty variant of Mat4Transpose: the matrix is left as it is.  C12 must
\* fail on it.
Mat4Transpose_None(a) == a

\* mat4.transpose(mat) in place.
Mat4Transpose(a) ==
    CHOOSE r \in { [e \in 1..16 |-> m[4 * ((e - 1) % 4) + ((e - 1) \div 4) + 1]]
                   : m \in {a} } : TRUE

\* _initNormalMatrices: every node gets the transposed inverse of its
\* modelMatrix as normalMatrix.
InitNormalMatrices ==
    /\ pc = "normals"
    /\ json' = [json EXCEPT !.nodes =
                  [n \in 1..Len(json.nodes) |->
                     [json.nodes[n] EXCEPT !.normalMatrix =
                        Mat4Transpose(Mat4Inverse(json.nodes[n].modelMatrix,
                                                  Mat4Create))]]]
    /\ pc' = "extents"
    /\ UNCHANGED <<vbo, ibo, min, max, center, diagonal, i, vboSize, iboSize,
                   writeIdx, glCalls, glError, MatrixArray, others>>
\* ---------------------------------------------------------- _computeExtents
\* makeExtentsUpdater(pred)(v1, v2, dest): per axis v1's component when
\* pred(v1, v2) holds, v2's otherwise.
LessThan(val1, val2) == val1 < val2
GreaterThan(val1, val2) == val1 > val2

UpdateMinExtents(v1, v2) ==
    [c \in 1..3 |-> IF LessThan(v1[c], v2[c]) THEN v1[c] ELSE v2[c]]

UpdateMaxExtents(v1, v2) ==
    [c \in 1..3 |-> IF GreaterThan(v1[c], v2[c]) THEN v1[c] ELSE v2[c]]

\* The loop over the vertices of one mesh (lines 339-349), from index k.
RECURSIVE ScanVerts(_, _, _, _)
ScanVerts(curNode, curVerts, k, ext) ==
    IF ~(k < Len(curVerts)) THEN ext
    ELSE CHOOSE r \in
            { ScanVerts(curNode, curVerts, k + 3,
                        [minExtent |-> UpdateMinExtents(e.minExtent, tmpVec),
                         maxExtent |-> UpdateMaxExtents(e.maxExtent, tmpVec)])
              : e \in {ext},
                tmpVec \in { Mat4MultiplyVec3(curNode.modelMatrix,
                                << ToMatrixArray(curVerts[k + 1]),
                                   ToMatrixArray(curVerts[k + 2]),
                                   ToMatrixArray(curVerts[k + 3]) >>) } } : TRUE

\* The loop over the meshes of one node (lines 335-350), from index j.
RECURSIVE ScanMeshIndices(_, _, _)
ScanMeshIndices(curNode, j, ext) ==
    IF ~(j < Len(curNode.meshIndices)) THEN ext
    ELSE ScanMeshIndices(curNode, j + 1,
            ScanVerts(curNode,
                      json.meshes[curNode.meshIndices[j + 1] + 1].vertexPositions,
                      0, ext))

\* The loop over the nodes (lines 331-351), from index n.
RECURSIVE ScanNodes(_, _)
ScanNodes(n, ext) ==
    IF ~(n < Len(json.nodes)) THEN ext
    ELSE ScanNodes(n + 1, ScanMeshIndices(json.nodes[n + 1], 0, ext))

\* The sentinels the scan starts from (lines 324-327).
InitialExtents ==
    [minExtent |-> Vec3CreateFrom(MAX_VALUE, MAX_VALUE, MAX_VALUE),
     maxExtent |-> Vec3CreateFrom(NEG_MIN_VALUE, NEG_MIN_VALUE, NEG_MIN_VALUE)]

\* Faulty variant of ComputeExtents: the caller goes back to the
\* normal-matrix pass instead of returning.  C25 must fail on it.
ComputeExtents_Repeats ==
    /\ pc = "extents"
    /\ \E ext \in { ScanNodes(0, InitialExtents) } :
           /\ min' = ext.minExtent
           /\ max' = ext.maxExtent
           /\ center' = Vec3Midpoint(ext.minExtent, ext.maxExtent)
           /\ diagonal' = Vec3Dist(ext.minExtent, ext.maxExtent)
    /\ pc' = "normals"
    /\ UNCHANGED <<json, vbo, ibo, i, vboSize, iboSize, writeIdx, glCalls,
                   glError, MatrixArray, others>>

\* _computeExtents: min, max, center and diagonal of the model; initialize
\* returns.
ComputeExtents ==
    /\ pc = "extents"
    /\ \E ext \in { ScanNodes(0, InitialExtents) } :
           /\ min' = ext.minExtent
           /\ max' = ext.maxExtent
           /\ center' = Vec3Midpoint(ext.minExtent, ext.maxExtent)
           /\ diagonal' = Vec3Dist(ext.minExtent, ext.maxExtent)
    /\ pc' = "done"
    /\ UNCHANGED <<json, vbo, ibo, i, vboSize, iboSize, writeIdx, glCalls,
                   glError, MatrixArray, others>>

\* ------------------------------------------------------------ specification
Next ==
    \/ StartInitBuffers
    \/ SizeMesh
    \/ AllocateBuffers
    \/ WriteMesh
    \/ UnbindBuffers
    \/ InitMaterialTextures
    \/ InitNormalMatrices
    \/ ComputeExtents

Spec == Init /\ [][Next]_vars

\* The derived data a call of initialize leaves on the model.
DerivedData ==
    [json |-> json, vbo |-> vbo, ibo |-> ibo, min |-> min, max |-> max,
     center |-> center, diagonal |-> diagonal]

\* initialize is called a second time on the model: _initBuffers starts over
\* with fresh locals on the scene description the first call left.
InitializeAgain ==
    /\ pc = "done"
    /\ firstCall = NoObject
    /\ firstCall' = [kind |-> "initialized"] @@ DerivedData
    /\ pc' = "size"
    /\ i' = 0
    /\ vboSize' = 0
    /\ iboSize' = 0
    /\ UNCHANGED <<json, vbo, ibo, min, max, center, diagonal, writeIdx,
                   glCalls, glError, MatrixArray, someBuffer, program,
                   glProgram, light, app, thrown, drawable, context>>


\* initialize is one synchronous call: the JavaScript engine runs it statement
\* after statement until it returns, so a step that can be taken is taken.
SpecTerminates == Init /\ [][Next]_vars /\ WF_vars(Next)

\* Scene files for the extents: three fixed well-formed meshes -- the triangle
\* (0,0,0), (2,0,0), (0,2,0); two points with negative x and z; a mesh without
\* vertices -- under up to MaxNodes nodes, each one of the NodeKinds.
Point(x, y, z) == <<x * Scale, y * Scale, z * Scale>>

ExtentMeshes ==
    << NewMesh(Point(0, 0, 0) \o Point(2, 0, 0) \o Point(0, 2, 0),
               Point(0, 0, 1) \o Point(0, 0, 1) \o Point(0, 0, 1), <<>>, <<>>, 0),
       NewMesh(Point(-2, -4, -6) \o Point(-1, 3, -5),
               Point(0, 1, 0) \o Point(0, 1, 0), <<>>, <<>>, 0),
       NewMesh(<<>>, <<>>, <<>>, <<>>, 0) >>

\* The nodes of these scene files: every one of the Matrices, and as
\* meshIndices no mesh, each mesh alone, and the two meshes with vertices.
NodeKinds ==
    { NewNode(Identity, <<>>),
      NewNode(Identity, <<0>>),
      NewNode(Identity, <<1>>),
      NewNode(Identity, <<2>>),
      NewNode(Translate500, <<1>>),
      NewNode(Translate500, <<0, 1>>),
      NewNode(RotateZ90, <<0>>),
      NewNode(Scale2, <<1>>),
      NewNode(Scale2, <<0, 1>>) }

InitExtents ==
    /\ \E n \in 0..MaxNodes :
       \E kinds \in [1..n -> NodeKinds] :
            json = [meshes |-> ExtentMeshes,
                    materials |-> << NewMaterial(<<>>) >>,
                    nodes |-> [e \in 1..n |-> kinds[e]]]
    /\ MatrixArray \in {"Float32Array", "Array"}
    /\ Constructed
    /\ OthersIdle

SpecExtents == InitExtents /\ [][Next]_vars

\* Scene files with nodes that cannot be inverted: next to the Matrices, a
\* node flattened onto the plane z = 0 and a node scaled by 0.
FlattenZ == <<Scale, 0, 0, 0,  0, Scale, 0, 0,  0, 0, 0, 0,  0, 0, 0, Scale>>
Scale0 == <<0, 0, 0, 0,  0, 0, 0, 0,  0, 0, 0, 0,  0, 0, 0, Scale>>
SingularMatrices == {FlattenZ, Scale0}

InitSingular ==
    /\ \E n \in 0..MaxNodes :
       \E mats \in [1..n -> Matrices \cup SingularMatrices] :
            json = [meshes |-> ExtentMeshes,
                    materials |-> << NewMaterial(<<>>) >>,
                    nodes |-> [e \in 1..n |-> NewNode(mats[e], <<0, 1>>)]]
    /\ MatrixArray \in {"Float32Array", "Array"}
    /\ Constructed
    /\ OthersIdle

SpecSingular == InitSingular /\ [][Next]_vars

\* Two calls of initialize, on the scene files of Init and of InitExtents.
InitTwice ==
    \/ Init
    \/ InitExtents

NextTwice ==
    \/ Next
    \/ InitializeAgain

SpecTwice == InitTwice /\ [][NextTwice]_vars

\* ------------------------------------- ShipGL.Buffer, ShipGL.BufferUtilities
\* No model is being initialized while the application works on its buffer.
NoModel ==
    /\ json = [meshes |-> <<>>, materials |-> <<>>, nodes |-> <<>>]
    /\ MatrixArray = "Float32Array"
    /\ Constructed

\* The number k as an element of an array for a buffer of the given type:
\* floats are in fixed point, indices are plain integers.
Elem(ArrayType, k) == IF ArrayType = "Float32Array" THEN k * Scale ELSE k

\* The array [from, from + 1, ..., from + n - 1].
Run(ArrayType, from, n) == [e \in 1..n |-> Elem(ArrayType, from + e - 1)]

\* A number the element type cannot hold: (2^24 + 1) / Scale is no float,
\* 65540 is no 16-bit index.
Wide(ArrayType) == IF ArrayType = "Float32Array" THEN F32Exact + 1 ELSE 65536 + 4

\* The arrays the application passes: [1, 2, ...] of every length up to
\* MaxLen, the array [MaxLen + 1, ...] that is one element shorter than the
\* longest, and one array with a wide number.
Arrays(ArrayType) ==
    { Run(ArrayType, 1, n) : n \in 0..MaxLen }
      \cup { Run(ArrayType, MaxLen + 1, MaxLen - 1), << Wide(ArrayType) >> }

\* An optional index or length argument.
Optional == (0..MaxLen) \cup {Undefined}

\* someBuffer.bind()
SomeBufferBind ==
    /\ someBuffer' = BufferBind(someBuffer)
    /\ UNCHANGED <<modelVars, program, glProgram, light, extras>>

\* someBuffer.unbind()
SomeBufferUnbind ==
    /\ someBuffer' = BufferUnbind(someBuffer)
    /\ UNCHANGED <<modelVars, program, glProgram, light, extras>>

\* someBuffer.allocate(length), called as documented on a bound buffer.
SomeBufferAllocate ==
    /\ someBuffer.bound
    /\ \E length \in 0..MaxLen :
          someBuffer' = BufferAllocate(someBuffer, length)
    /\ UNCHANGED <<modelVars, program, glProgram, light, extras>>

\* someBuffer.write(array, index), called as documented on a bound buffer.
SomeBufferWriteCall(array, index) ==
    /\ someBuffer.bound
    /\ someBuffer' = BufferWrite(someBuffer, array, index)
    /\ UNCHANGED <<modelVars, program, glProgram, light, extras>>

SomeBufferWrite ==
    \E array \in Arrays(someBuffer.ArrayType) : \E index \in Optional :
        SomeBufferWriteCall(array, index)

\* The function makeBufferCreator returns, called with (array, length):
\* length = length || array.length, then a new buffer is bound, allocated,
\* written with the whole array at index 0 and unbound.
MakeBufferCreator(BufferType, ArrayType, bpe, array, length) ==
    LET len == IF length = Undefined \/ length = 0 THEN Len(array) ELSE length
        buffer == NewBuffer(BufferType, ArrayType, bpe)
    IN  BufferUnbind(BufferWrite(BufferAllocate(BufferBind(buffer), len),
                                 array, Undefined))

\* someBuffer = bufferUtils.createVertexBuffer(array, length)
CreateVertexBufferCall(array, length) ==
    /\ someBuffer' = MakeBufferCreator("ARRAY_BUFFER", "Float32Array",
                                       BYTES_PER_ELEMENT_F32, array, length)
    /\ UNCHANGED <<modelVars, program, glProgram, light, extras>>

CreateVertexBuffer ==
    \E array \in Arrays("Float32Array") : \E length \in Optional :
        CreateVertexBufferCall(array, length)

\* someBuffer = bufferUtils.createIndexBuffer(array, length)
CreateIndexBufferCall(array, length) ==
    /\ someBuffer' = MakeBufferCreator("ELEMENT_ARRAY_BUFFER", "Uint16Array",
                                       BYTES_PER_ELEMENT_U16, array, length)
    /\ UNCHANGED <<modelVars, program, glProgram, light, extras>>

CreateIndexBuffer ==
    \E array \in Arrays("Uint16Array") : \E length \in Optional :
        CreateIndexBufferCall(array, length)

InitBuffer ==
    /\ NoModel
    /\ program = NoObject
    /\ glProgram = NoObject
    /\ light = NoObject
    /\ ExtrasIdle
    /\ someBuffer \in
          { NewBuffer("ARRAY_BUFFER", "Float32Array", BYTES_PER_ELEMENT_F32),
            NewBuffer("ELEMENT_ARRAY_BUFFER", "Uint16Array", BYTES_PER_ELEMENT_U16) }

\* An application that works on one buffer it constructed.
NextBuffer ==
    \/ SomeBufferBind
    \/ SomeBufferUnbind
    \/ SomeBufferAllocate
    \/ SomeBufferWrite

SpecBuffer == InitBuffer /\ [][NextBuffer]_vars

\* An application that also replaces its buffer by one that
\* ShipGL.BufferUtilities creates.
NextBufferUtilities ==
    \/ SomeBufferBind
    \/ SomeBufferUnbind
    \/ SomeBufferAllocate
    \/ SomeBufferWrite
    \/ CreateVertexBuffer
    \/ CreateIndexBuffer

SpecBufferUtilities == InitBuffer /\ [][NextBufferUtilities]_vars

\* ------------------------------------------------------ ShipGL.ShaderProgram
\* JavaScript values a property this[name] or a location can be.
JsUndefined == [type |-> "undefined", value |-> 0]
JsNull == [type |-> "null", value |-> 0]
JsNumber(n) == [type |-> "number", value |-> n]
JsObject == [type |-> "object", value |-> 0]

\* a || b takes b exactly when a is falsy: undefined, null or the number 0.
Falsy(v) == v.type \in {"undefined", "null"} \/ (v.type = "number" /\ v.value = 0)

AttributeNames == {"aPosition", "aNormal"}
UniformNames == {"uColor"}

\* What gl.getAttribLocation returns for a name: its location, -1 when the
\* linked program has no such attribute.
AttribLocations == { JsNumber(-1), JsNumber(0), JsNumber(1) }

\* What gl.getUniformLocation returns: a WebGLUniformLocation object, null
\* when the linked program has no such uniform.
UniformLocations == { JsObject, JsNull }

\* attributeLocation(att) / uniformLocation(unf): one lookup in the context.
LocationLookup(name) == glProgram.locations[name]

\* this[name] = this[name] || this.attributeLocation(name), the first
\* statement of every method that takes a name: the new property value.
CachedLocation(name) ==
    IF Falsy(program.props[name]) THEN LocationLookup(name)
                                  ELSE program.props[name]

\* The lookups the context has served once that statement has run.
CountedLookups(name) ==
    IF Falsy(program.props[name])
    THEN [glProgram.lookups EXCEPT ![name] = glProgram.lookups[name] + 1]
    ELSE glProgram.lookups

\* A name can be used while its lookups have not reached MaxLookups.
CanUse(name) ==
    /\ program # NoObject
    /\ Falsy(program.props[name]) => glProgram.lookups[name] < MaxLookups

\* The program once the location of name is cached.
Cached(name) == [program EXCEPT !.props[name] = CachedLocation(name)]

\* The context once the lookup, if any, was served and glCall got the
\* location of name.
Called(name, glCall) ==
    [glProgram EXCEPT
        !.lookups = CountedLookups(name),
        !.passed[name] = CachedLocation(name),
        !.lastCall = glCall,
        !.enabled = IF glCall = "enableVertexAttribArray"
                        /\ CachedLocation(name).value >= 0
                    THEN glProgram.enabled \cup {CachedLocation(name).value}
                    ELSE IF glCall = "disableVertexAttribArray"
                    THEN glProgram.enabled \ {CachedLocation(name).value}
                    ELSE glProgram.enabled]

\* enableAttributeArray(att)
EnableAttributeArray ==
    \E att \in AttributeNames :
        /\ CanUse(att)
        /\ program' = Cached(att)
        /\ glProgram' = Called(att, "enableVertexAttribArray")
        /\ UNCHANGED <<modelVars, someBuffer, light, extras>>

\* disableAttributeArray(att)
DisableAttributeArray ==
    \E att \in AttributeNames :
        /\ CanUse(att)
        /\ program' = Cached(att)
        /\ glProgram' = Called(att, "disableVertexAttribArray")
        /\ UNCHANGED <<modelVars, someBuffer, light, extras>>

\* setAttributeBuffer1f .. setAttributeBuffer4i (att, stride, offset, norm)
SetAttributeBuffer ==
    \E att \in AttributeNames :
        /\ CanUse(att)
        /\ program' = Cached(att)
        /\ glProgram' = Called(att, "vertexAttribPointer")
        /\ UNCHANGED <<modelVars, someBuffer, light, extras>>

\* setAttributeValue1f .. setAttributeValue4f (att, values)
SetAttributeValue ==
    \E att \in AttributeNames :
        /\ CanUse(att)
        /\ program' = Cached(att)
        /\ glProgram' = Called(att, "vertexAttrib")
        /\ UNCHANGED <<modelVars, someBuffer, light, extras>>

\* setUniform1f .. setUniformMat4 (unf, values)
SetUniform ==
    \E unf \in UniformNames :
        /\ CanUse(unf)
        /\ program' = Cached(unf)
        /\ glProgram' = Called(unf, "uniform")
        /\ UNCHANGED <<modelVars, someBuffer, light, extras>>

\* A linked program, no name used yet; the context has fixed its locations.
InitProgram ==
    /\ NoModel
    /\ someBuffer = NewBuffer("ARRAY_BUFFER", "Float32Array", BYTES_PER_ELEMENT_F32)
    /\ light = NoObject
    /\ ExtrasIdle
    /\ program = [kind |-> "ShaderProgram",
                  props |-> [n \in AttributeNames \cup UniformNames |-> JsUndefined]]
    /\ \E al \in [AttributeNames -> AttribLocations] :
       \E ul \in [UniformNames -> UniformLocations] :
          glProgram = [kind |-> "WebGLProgram",
                       locations |-> [n \in AttributeNames \cup UniformNames |->
                                        IF n \in AttributeNames THEN al[n] ELSE ul[n]],
                       lookups |-> [n \in AttributeNames \cup UniformNames |-> 0],
                       passed |-> [n \in AttributeNames \cup UniformNames |-> JsUndefined],
                       lastCall |-> "linkProgram",
                       enabled |-> {}]

NextProgram ==
    \/ EnableAttributeArray
    \/ DisableAttributeArray
    \/ SetAttributeBuffer
    \/ SetAttributeValue
    \/ SetUniform

SpecProgram == InitProgram /\ [][NextProgram]_vars

\* ------------------------------ ShipGL.DirectionalLight, ShipGL.PointLight
\* The largest r with r * r <= n: Math.sqrt in fixed point.
ISqrt(n) == CHOOSE r \in 0..n : r * r <= n /\ (r + 1) * (r + 1) > n

\* ShipGL.Math.toRadians(degrees), for a multiple of 90 degrees: the angle
\* as a number of quarter turns, standing for quarterTurns * PI / 2.
ToRadians(degrees) == [quarterTurns |-> degrees \div 90]

\* Math.sin and Math.cos of such an angle, rounded to 1 / Scale.
Sin(angle) == CASE angle.quarterTurns % 4 = 0 -> 0
                [] angle.quarterTurns % 4 = 1 -> Scale
                [] angle.quarterTurns % 4 = 2 -> 0
                [] angle.quarterTurns % 4 = 3 -> -Scale
Cos(angle) == CASE angle.quarterTurns % 4 = 0 -> Scale
                [] angle.quarterTurns % 4 = 1 -> 0
                [] angle.quarterTurns % 4 = 2 -> -Scale
                [] angle.quarterTurns % 4 = 3 -> 0

\* vec4.createFrom(x, y, z, w)
Vec4CreateFrom(x, y, z, w) ==
    <<ToMatrixArray(x), ToMatrixArray(y), ToMatrixArray(z), ToMatrixArray(w)>>

\* vec3.normalize(vec) in place, on the first three components: a vector of
\* length 0 becomes (0, 0, 0), one of length 1 stays, any other is scaled by
\* 1 / length.
Vec3Normalize(vec) ==
    LET len == ISqrt(vec[1] * vec[1] + vec[2] * vec[2] + vec[3] * vec[3])
        scaled(x) == Sign(x) * ((Abs(x) * Scale) \div len)
    IN  IF len = 0 THEN [e \in DOMAIN vec |-> IF e <= 3 THEN 0 ELSE vec[e]]
        ELSE IF len = Scale THEN vec
        ELSE [e \in DOMAIN vec |->
                IF e <= 3 THEN ToMatrixArray(scaled(vec[e])) ELSE vec[e]]

\* mat4.multiplyVec4(mat, vec) in place.
Mat4MultiplyVec4(mat, vec) ==
    [r \in 1..4 |->
        ToMatrixArray(fpMul(mat[r], vec[1]) + fpMul(mat[4 + r], vec[2])
                        + fpMul(mat[8 + r], vec[3]) + fpMul(mat[12 + r], vec[4]))]

\* mat4.identity(dest)
Mat4Identity == Identity

\* mat4.translate(mat, vec) in place: the last column becomes mat * (vec, 1).
Mat4Translate(mat, vec) ==
    [e \in 1..16 |->
        IF e <= 12 THEN mat[e]
        ELSE ToMatrixArray(fpMul(mat[e - 12], vec[1]) + fpMul(mat[e - 8], vec[2])
                             + fpMul(mat[e - 4], vec[3]) + mat[e])]

\* mat4.rotate(mat, angle, axis) in place, for an axis that is not the zero
\* vector: the axis is normalized, the first three columns of mat are
\* multiplied by the rotation.
Mat4Rotate(mat, angle, axis) ==
    LET n == Vec3Normalize(axis)
        x == n[1]
        y == n[2]
        z == n[3]
        s == Sin(angle)
        c == Cos(angle)
        t == Scale - c
        b == << fpMul(fpMul(x, x), t) + c,
                fpMul(fpMul(y, x), t) + fpMul(z, s),
                fpMul(fpMul(z, x), t) - fpMul(y, s),
                fpMul(fpMul(x, y), t) - fpMul(z, s),
                fpMul(fpMul(y, y), t) + c,
                fpMul(fpMul(z, y), t) + fpMul(x, s),
                fpMul(fpMul(x, z), t) + fpMul(y, s),
                fpMul(fpMul(y, z), t) - fpMul(x, s),
                fpMul(fpMul(z, z), t) + c >>
    IN  [e \in 1..16 |->
            IF e > 12 THEN mat[e]
            ELSE LET col == (e - 1) \div 4
                     row == ((e - 1) % 4) + 1
                 IN  ToMatrixArray(fpMul(mat[row], b[3 * col + 1])
                                     + fpMul(mat[4 + row], b[3 * col + 2])
                                     + fpMul(mat[8 + row], b[3 * col + 3]))]

\* ShipGL.Math.arbitraryRotation(angle, center, axis, dest): the rotation
\* about the axis through the point cen.
ArbitraryRotation(angle, cen, axis) ==
    Mat4Translate(Mat4Rotate(Mat4Translate(Mat4Identity, cen), angle, axis),
                  << -cen[1], -cen[2], -cen[3] >>)

\* new ShipGL.DirectionalLight(intensity, dir); lastCall records the last
\* method called on the light.
NewDirectionalLight(dir) ==
    [kind |-> "DirectionalLight",
     isRotating |-> FALSE,
     rotationMat |-> Mat4Create,
     direction |-> Vec3Normalize(Vec4CreateFrom(dir[1], dir[2], dir[3], 0)),
     lastCall |-> "new"]

\* new ShipGL.PointLight(intensity, position)
NewPointLight(position) ==
    [kind |-> "PointLight",
     isRotating |-> FALSE,
     rotationMat |-> Mat4Create,
     position |-> Vec4CreateFrom(position[1], position[2], position[3], Scale),
     lastCall |-> "new"]

\* Faulty variant of DirectionalLightUpdated: isRotating is not looked at.
\* C19 must fail on it.
DirectionalLightUpdated_Always(l) ==
    [l EXCEPT !.direction =
        Vec3Normalize([Mat4MultiplyVec4(l.rotationMat, l.direction) EXCEPT ![4] = 0]),
              !.lastCall = "update"]

\* DirectionalLight.update(elapsed): the light after the call.
DirectionalLightUpdated(l) ==
    IF l.isRotating
    THEN [l EXCEPT !.direction =
            Vec3Normalize([Mat4MultiplyVec4(l.rotationMat, l.direction) EXCEPT ![4] = 0]),
                   !.lastCall = "update"]
    ELSE [l EXCEPT !.lastCall = "update"]

\* Faulty variant of PointLightUpdated: the fourth component is set to 0, as
\* for a direction.  C20 must fail on it.
PointLightUpdated_LocksZero(l) ==
    IF l.isRotating
    THEN [l EXCEPT !.position =
            [Mat4MultiplyVec4(l.rotationMat, l.position) EXCEPT ![4] = 0],
                   !.lastCall = "update"]
    ELSE [l EXCEPT !.lastCall = "update"]

\* PointLight.update(elapsed): the light after the call.
PointLightUpdated(l) ==
    IF l.isRotating
    THEN [l EXCEPT !.position =
            [Mat4MultiplyVec4(l.rotationMat, l.position) EXCEPT ![4] = Scale],
                   !.lastCall = "update"]
    ELSE [l EXCEPT !.lastCall = "update"]

\* The arguments the application passes: multiples of 90 degrees, the
\* coordinate axes (not all of length 1), directions and positions.  A point
\* light always turns about the same point, so that its positions stay on
\* one finite orbit.
Angles == {90, 180, -90}
Axes == { <<Scale, 0, 0>>, <<0, 2 * Scale, 0>>, <<0, 0, Scale>> }
Centers == { <<Scale, 0, 0>> }
Directions == { <<Scale, 0, 0>>, <<0, 2 * Scale, 0>>, <<0, 0, -Scale>> }
Positions == { <<Scale, 0, 0>>, <<2 * Scale, 3 * Scale, 0>> }

DirectionalLightUpdate ==
    /\ light.kind = "DirectionalLight"
    /\ light' = DirectionalLightUpdated(light)
    /\ UNCHANGED <<modelVars, someBuffer, program, glProgram, extras>>

\* DirectionalLight.startRotation(angle, axis)
DirectionalLightStartRotation ==
    /\ light.kind = "DirectionalLight"
    /\ \E angle \in Angles : \E axis \in Axes :
          light' = [light EXCEPT
                      !.isRotating = TRUE,
                      !.rotationMat = Mat4Rotate(Mat4Identity, ToRadians(angle), axis),
                      !.lastCall = "startRotation"]
    /\ UNCHANGED <<modelVars, someBuffer, program, glProgram, extras>>

\* DirectionalLight.stopRotation()
DirectionalLightStopRotation ==
    /\ light.kind = "DirectionalLight"
    /\ light' = [light EXCEPT !.isRotating = FALSE, !.lastCall = "stopRotation"]
    /\ UNCHANGED <<modelVars, someBuffer, program, glProgram, extras>>

PointLightUpdate ==
    /\ light.kind = "PointLight"
    /\ light' = PointLightUpdated(light)
    /\ UNCHANGED <<modelVars, someBuffer, program, glProgram, extras>>

\* PointLight.startRotation(angle, axis, center)
PointLightStartRotation ==
    /\ light.kind = "PointLight"
    /\ \E angle \in Angles : \E axis \in Axes : \E cen \in Centers :
          light' = [light EXCEPT
                      !.isRotating = TRUE,
                      !.rotationMat = ArbitraryRotation(ToRadians(angle), cen, axis),
                      !.lastCall = "startRotation"]
    /\ UNCHANGED <<modelVars, someBuffer, program, glProgram, extras>>

\* PointLight.stopRotation()
PointLightStopRotation ==
    /\ light.kind = "PointLight"
    /\ light' = [light EXCEPT !.isRotating = FALSE, !.lastCall = "stopRotation"]
    /\ UNCHANGED <<modelVars, someBuffer, program, glProgram, extras>>

InitLight ==
    /\ NoModel
    /\ someBuffer = NewBuffer("ARRAY_BUFFER", "Float32Array", BYTES_PER_ELEMENT_F32)
    /\ program = NoObject
    /\ glProgram = NoObject
    /\ ExtrasIdle
    /\ light \in { NewDirectionalLight(dir) : dir \in Directions }
                  \cup { NewPointLight(position) : position \in Positions }

NextLight ==
    \/ DirectionalLightUpdate
    \/ DirectionalLightStartRotation
    \/ DirectionalLightStopRotation
    \/ PointLightUpdate
    \/ PointLightStartRotation
    \/ PointLightStopRotation

SpecLight == InitLight /\ [][NextLight]_vars

\* ------------ ShipGL.BaseApp and the abstract methods of the base classes
\* The JavaScript booleans handleKeyPressed and handleKeyReleased store.
JsBoolean(b) == [type |-> "boolean", value |-> b]

\* The key codes the keyboard sends.
KeyCodes == 0..(MaxKeys - 1)

\* What new Date().getTime() can return while the application is built:
\* milliseconds since 1970, never 0 on a running machine.
StartTimes == {1, 2}

\* new ShipGL.BaseApp(canvasId), or an application derived from it as DemoApp
\* is, built at time t.  heldKeys is the empty array: every index reads
\* undefined.  Next to the fields of the constructor the record keeps the
\* time of construction, the time of every call of run, the calls of update
\* and draw run made, whether a frame is requested from requestAnimFrame,
\* and the last book-keeping call per key.
NewBaseApp(kind, t) ==
    [kind |-> kind,
     heldKeys |-> [k \in KeyCodes |-> JsUndefined],
     _currentTime |-> 0,
     _previousTime |-> 0,
     _timeDelta |-> 0,
     constructedAt |-> t,
     frameTimes |-> <<>>,
     calls |-> <<>>,
     frameRequested |-> FALSE,
     lastKeyCall |-> [k \in KeyCodes |-> "none"]]

\* new ShipGL.Light(intensity): the base class of the lights.
NewLight(intensity) ==
    [kind |-> "Light",
     intensity |-> intensity,
     isRotating |-> FALSE,
     rotationMat |-> Mat4Create,
     lastCall |-> "new"]

\* The time of the latest reading of the clock.
LastTime(a) ==
    IF Len(a.frameTimes) = 0 THEN a.constructedAt
    ELSE a.frameTimes[Len(a.frameTimes)]

\* this.update(elapsed) inside run: ShipGL.BaseApp.prototype.update throws;
\* the update of a derived application returns or throws an error of its own.
UpdateOutcomes(kind) ==
    IF kind = "BaseApp" THEN {"ShipGL.BaseApp.update is abstract!"}
    ELSE {"none", "TypeError"}

\* this.draw(elapsed) inside run.
DrawOutcomes(kind) ==
    IF kind = "BaseApp" THEN {"ShipGL.BaseApp.draw is abstract!"}
    ELSE {"none", "TypeError"}

\* One call made by run: the method, its argument, the frame (call of run) it
\* belongs to and what it threw.
AppCall(method, elapsed, frame, threw) ==
    [method |-> method, elapsed |-> elapsed, frame |-> frame, threw |-> threw]

\* The application object after run's statements with the clock reading now,
\* update ending as u and draw as d.  An exception of update leaves run
\* before draw, one of either leaves it before requestAnimFrame.
AppRan(a, now, u, d) ==
    LET delta == now - a._currentTime
        frame == Len(a.frameTimes) + 1
    IN  [a EXCEPT !._previousTime = a._currentTime,
                  !._currentTime = now,
                  !._timeDelta = delta,
                  !.frameTimes = Append(a.frameTimes, now),
                  !.calls = IF u = "none"
                            THEN a.calls \o << AppCall("update", delta, frame, u),
                                               AppCall("draw", delta, frame, d) >>
                            ELSE Append(a.calls, AppCall("update", delta, frame, u)),
                  !.frameRequested = (u = "none" /\ d = "none")]

\* ShipGL.BaseApp.prototype.run, called by the application once and then by
\* the callback handed to requestAnimFrame.
AppRun ==
    /\ app.kind # "none"
    /\ Len(app.frameTimes) = 0 \/ app.frameRequested
    /\ Len(app.frameTimes) < MaxFrames
    /\ \E now \in LastTime(app)..MaxTime :
       \E u \in UpdateOutcomes(app.kind) :
       \E d \in DrawOutcomes(app.kind) :
            /\ app' = AppRan(app, now, u, d)
            /\ thrown' = [call |-> "ShipGL.BaseApp.run",
                          message |-> IF u # "none" THEN u ELSE d]
    /\ UNCHANGED <<modelVars, someBuffer, program, glProgram, light, drawable,
                   context, firstCall>>

\* Faulty variant of KeyPressed: the array is rebuilt with only key k held.
\* C23 must fail on it.
KeyPressed_Alone(a, k) ==
    [a EXCEPT !.heldKeys = [c \in KeyCodes |->
                                IF c = k THEN JsBoolean(TRUE) ELSE JsUndefined],
              !.lastKeyCall[k] = "handleKeyPressed"]

\* this.heldKeys[keyCode] = true
KeyPressed(a, k) ==
    [a EXCEPT !.heldKeys[k] = JsBoolean(TRUE),
              !.lastKeyCall[k] = "handleKeyPressed"]

\* this.heldKeys[keyCode] = false
KeyReleased(a, k) ==
    [a EXCEPT !.heldKeys[k] = JsBoolean(FALSE),
              !.lastKeyCall[k] = "handleKeyReleased"]

\* ShipGL.BaseApp.prototype.handleKeyPressed(keyCode), hooked to onkeydown.
HandleKeyPressed ==
    /\ app.kind # "none"
    /\ \E keyCode \in KeyCodes : app' = KeyPressed(app, keyCode)
    /\ thrown' = [call |-> "ShipGL.BaseApp.handleKeyPressed", message |-> "none"]
    /\ UNCHANGED <<modelVars, someBuffer, program, glProgram, light, drawable,
                   context, firstCall>>

\* ShipGL.BaseApp.prototype.handleKeyReleased(keyCode), hooked to onkeyup.
HandleKeyReleased ==
    /\ app.kind # "none"
    /\ \E keyCode \in KeyCodes : app' = KeyReleased(app, keyCode)
    /\ thrown' = [call |-> "ShipGL.BaseApp.handleKeyReleased", message |-> "none"]
    /\ UNCHANGED <<modelVars, someBuffer, program, glProgram, light, drawable,
                   context, firstCall>>

\* The abstract methods.  Each one is a single throw statement.
AppInitialize ==
    /\ app.kind = "BaseApp"
    /\ thrown' = [call |-> "ShipGL.BaseApp.initialize",
                  message |-> "ShipGL.BaseApp.initialize is abstract!"]
    /\ UNCHANGED <<modelVars, someBuffer, program, glProgram, light, app,
                   drawable, context, firstCall>>

AppUpdate ==
    /\ app.kind = "BaseApp"
    /\ thrown' = [call |-> "ShipGL.BaseApp.update",
                  message |-> "ShipGL.BaseApp.update is abstract!"]
    /\ UNCHANGED <<modelVars, someBuffer, program, glProgram, light, app,
                   drawable, context, firstCall>>

AppDraw ==
    /\ app.kind = "BaseApp"
    /\ thrown' = [call |-> "ShipGL.BaseApp.draw",
                  message |-> "ShipGL.BaseApp.draw is abstract!"]
    /\ UNCHANGED <<modelVars, someBuffer, program, glProgram, light, app,
                   drawable, context, firstCall>>

AppHandleHeldKeys ==
    /\ app.kind = "BaseApp"
    /\ thrown' = [call |-> "ShipGL.BaseApp.handleHeldKeys",
                  message |-> "ShipGL.BaseApp.handleHeldKeys is abstract!"]
    /\ UNCHANGED <<modelVars, someBuffer, program, glProgram, light, app,
                   drawable, context, firstCall>>

LightUpdate ==
    /\ light.kind = "Light"
    /\ thrown' = [call |-> "ShipGL.Light.update",
                  message |-> "ShipGL.Light.update is abstract!"]
    /\ UNCHANGED <<modelVars, someBuffer, program, glProgram, light, app,
                   drawable, context, firstCall>>

\* Faulty variant of LightStartRotation: the flag is set before the throw.
\* C21 must fail on it.
LightStartRotation_Starts ==
    /\ light.kind = "Light"
    /\ light' = [light EXCEPT !.isRotating = TRUE]
    /\ thrown' = [call |-> "ShipGL.Light.startRotation",
                  message |-> "ShipGL.Light.startRotation is abstract!"]
    /\ UNCHANGED <<modelVars, someBuffer, program, glProgram, app, drawable,
                   context, firstCall>>

LightStartRotation ==
    /\ light.kind = "Light"
    /\ thrown' = [call |-> "ShipGL.Light.startRotation",
                  message |-> "ShipGL.Light.startRotation is abstract!"]
    /\ UNCHANGED <<modelVars, someBuffer, program, glProgram, light, app,
                   drawable, context, firstCall>>

LightStopRotation ==
    /\ light.kind = "Light"
    /\ thrown' = [call |-> "ShipGL.Light.stopRotation",
                  message |-> "ShipGL.Light.stopRotation is abstract!"]
    /\ UNCHANGED <<modelVars, someBuffer, program, glProgram, light, app,
                   drawable, context, firstCall>>

\* ShipGL.Model.prototype.draw, on a model that may be initialized or not.
ModelDraw ==
    /\ app.kind # "none"
    /\ thrown' = [call |-> "ShipGL.Model.draw",
                  message |-> "ShipGL.Model.draw is abstract!"]
    /\ UNCHANGED <<modelVars, someBuffer, program, glProgram, light, app,
                   drawable, context, firstCall>>

\* An application, base or derived, that holds a base light and a model of
\* one triangle-less mesh.
InitApp ==
    /\ json = [meshes |-> << NewMesh(<<101, 102, 103>>, <<131, 132, 133>>,
                                     <<>>, <<>>, 0) >>,
               materials |-> << NewMaterial(<<>>) >>,
               nodes |-> << NewNode(Identity, <<0>>) >>]
    /\ MatrixArray = "Float32Array"
    /\ Constructed
    /\ someBuffer = NewBuffer("ARRAY_BUFFER", "Float32Array", BYTES_PER_ELEMENT_F32)
    /\ program = NoObject
    /\ glProgram = NoObject
    /\ light = NewLight(<<Scale, Scale, Scale>>)
    /\ app \in { NewBaseApp(kind, t) : kind \in {"BaseApp", "DemoApp"}, t \in StartTimes }
    /\ thrown = NothingThrown
    /\ drawable = NoObject
    /\ context = NoObject
    /\ firstCall = NoObject

NextApp ==
    \/ AppRun
    \/ HandleKeyPressed
    \/ HandleKeyReleased
    \/ AppInitialize
    \/ AppUpdate
    \/ AppDraw
    \/ AppHandleHeldKeys
    \/ LightUpdate
    \/ LightStartRotation
    \/ LightStopRotation
    \/ ModelDraw

SpecApp == InitApp /\ [][NextApp]_vars

\* ----------------------------------- ShipGL.Floor.draw, ShipGL.SkyBox.draw
\* One statement of a draw method: the method called, and the attribute or
\* uniform name it is called with ("" when it takes none).
Statement(method, name) == [method |-> method, name |-> name]

\* ShipGL.Floor.prototype.draw, statement by statement.
FloorStatements ==
    << Statement("program.bind", ""),
       Statement("vbo.bind", ""),
       Statement("ibo.bind", ""),
       Statement("texture.bind", ""),
       Statement("enableAttributeArray", "aPosition"),
       Statement("enableAttributeArray", "aTexCoord"),
       Statement("setUniform", "uProjMat"),
       Statement("setUniform", "uViewMat"),
       Statement("setUniform", "uModelMat"),
       Statement("setUniform", "uTilesAcross"),
       Statement("setUniform", "uTex"),
       Statement("setAttributeBuffer", "aPosition"),
       Statement("setAttributeBuffer", "aTexCoord"),
       Statement("drawElements", ""),
       Statement("disableAttributeArray", "aTexCoord"),
       Statement("disableAttributeArray", "aPosition"),
       Statement("texture.unbind", ""),
       Statement("ibo.unbind", ""),
       Statement("vbo.unbind", ""),
       Statement("program.unbind", "") >>

\* ShipGL.SkyBox.prototype.draw, statement by statement.
SkyBoxStatements ==
    << Statement("program.bind", ""),
       Statement("vbo.bind", ""),
       Statement("ibo.bind", ""),
       Statement("texture.bind", ""),
       Statement("enableAttributeArray", "aPosition"),
       Statement("setUniform", "uProjMat"),
       Statement("setUniform", "uViewMat"),
       Statement("setUniform", "uModelMat"),
       Statement("setUniform", "uCubeTex"),
       Statement("setAttributeBuffer", "aPosition"),
       Statement("drawElements", ""),
       Statement("disableAttributeArray", "aPosition"),
       Statement("texture.unbind", ""),
       Statement("ibo.unbind", ""),
       Statement("vbo.unbind", ""),
       Statement("program.unbind", "") >>

StatementsOf(kind) == IF kind = "Floor" THEN FloorStatements ELSE SkyBoxStatements

\* The attributes of the two shader programs.
AttributesOf(kind) == IF kind = "Floor" THEN {"aPosition", "aTexCoord"} ELSE {"aPosition"}

\* this.textureType of the texture the object holds: tileTexture is a
\* ShipGL.Texture, cubeMap a ShipGL.CubeTexture.
TextureTypeOf(kind) == IF kind = "Floor" THEN "TEXTURE_2D" ELSE "TEXTURE_CUBE_MAP"

\* The texture units and the generic vertex attributes of the context.
TextureUnits == {0, 1}
AttributeIndices == {0, 1}

\* One call as the rendering context receives it: target is the binding
\* point or the name the location stands for, object is "own" for an object
\* of the drawable, "other" for one of another drawable and "null"; location
\* is the unit or the attribute location passed (NoLocation when none is).
NoLocation == -2
ContextCall(op, target, object, location) ==
    [op |-> op, target |-> target, object |-> object, location |-> location]

\* A Floor or SkyBox as its constructor leaves it: locations is what
\* gl.getAttribLocation returns for the attributes of its linked program
\* props the properties this[att] of its
\* ShaderProgram, at the statement its draw method executes next (0: no call
\* of draw is running).
NewDrawable(kind, locations) ==
    [kind |-> kind,
     locations |-> locations,
     props |-> [a \in AttributesOf(kind) |-> JsUndefined],
     at |-> 0]

\* this[att] = this[att] || this.attributeLocation(att)
AttributeProp(d, att) ==
    IF Falsy(d.props[att]) THEN d.locations[att] ELSE d.props[att]

\* The context after one call.  gl.enableVertexAttribArray and
\* gl.disableVertexAttribArray raise INVALID_VALUE for an index that is no
\* generic attribute (-1) and change nothing.
AfterCall(ctx, c) ==
    LET logged == [ctx EXCEPT !.calls = Append(ctx.calls, c)]
    IN  CASE c.op = "useProgram" ->
                [logged EXCEPT !.currentProgram = c.object]
          [] c.op = "bindBuffer" /\ c.target = "ARRAY_BUFFER" ->
                [logged EXCEPT !.arrayBuffer = c.object]
          [] c.op = "bindBuffer" /\ c.target = "ELEMENT_ARRAY_BUFFER" ->
                [logged EXCEPT !.elementArrayBuffer = c.object]
          [] c.op = "activeTexture" ->
                [logged EXCEPT !.activeTexture = c.location]
          [] c.op = "bindTexture" ->
                [logged EXCEPT !.textures[ctx.activeTexture][c.target] = c.object]
          [] c.op = "enableVertexAttribArray" ->
                IF c.location \in AttributeIndices
                THEN [logged EXCEPT !.enabled = ctx.enabled \cup {c.location}]
                ELSE [logged EXCEPT !.error = TRUE]
          [] c.op = "disableVertexAttribArray" ->
                IF c.location \in AttributeIndices
                THEN [logged EXCEPT !.enabled = ctx.enabled \ {c.location}]
                ELSE [logged EXCEPT !.error = TRUE]
          [] OTHER -> logged

RECURSIVE AfterCalls(_, _)
AfterCalls(ctx, cs) ==
    IF cs = <<>> THEN ctx ELSE AfterCalls(AfterCall(ctx, Head(cs)), Tail(cs))

\* The calls one statement of draw makes, through ShaderProgram.bind/unbind,
\* Buffer.bind/unbind, Texture.bind(0)/unbind, enableAttributeArray,
\* disableAttributeArray, setUniform*, setAttributeBuffer*, gl.drawElements.
CallsOf(d, st) ==
    CASE st.method = "program.bind" ->
            << ContextCall("useProgram", "program", "own", NoLocation) >>
      [] st.method = "program.unbind" ->
            << ContextCall("useProgram", "program", "null", NoLocation) >>
      [] st.method = "vbo.bind" ->
            << ContextCall("bindBuffer", "ARRAY_BUFFER", "own", NoLocation) >>
      [] st.method = "vbo.unbind" ->
            << ContextCall("bindBuffer", "ARRAY_BUFFER", "null", NoLocation) >>
      [] st.method = "ibo.bind" ->
            << ContextCall("bindBuffer", "ELEMENT_ARRAY_BUFFER", "own", NoLocation) >>
      [] st.method = "ibo.unbind" ->
            << ContextCall("bindBuffer", "ELEMENT_ARRAY_BUFFER", "null", NoLocation) >>
      [] st.method = "texture.bind" ->
            << ContextCall("activeTexture", "TEXTURE0", "", 0),
               ContextCall("bindTexture", TextureTypeOf(d.kind), "own", NoLocation) >>
      [] st.method = "texture.unbind" ->
            << ContextCall("bindTexture", TextureTypeOf(d.kind), "null", NoLocation) >>
      [] st.method = "enableAttributeArray" ->
            << ContextCall("enableVertexAttribArray", st.name, "",
                           AttributeProp(d, st.name).value) >>
      [] st.method = "disableAttributeArray" ->
            << ContextCall("disableVertexAttribArray", st.name, "",
                           AttributeProp(d, st.name).value) >>
      [] st.method = "setAttributeBuffer" ->
            << ContextCall("vertexAttribPointer", st.name, "",
                           AttributeProp(d, st.name).value) >>
      [] st.method = "setUniform" ->
            << ContextCall("uniform", st.name, "", NoLocation) >>
      [] st.method = "drawElements" ->
            << ContextCall("drawElements", "TRIANGLES", "", NoLocation) >>

\* The drawable after the statement: the methods that take an attribute name
\* store the location in this[att].
AfterStatement(d, st, next) ==
    IF st.method \in {"enableAttributeArray", "disableAttributeArray",
                      "setAttributeBuffer"}
    THEN [d EXCEPT !.props[st.name] = AttributeProp(d, st.name), !.at = next]
    ELSE [d EXCEPT !.at = next]

\* The statement draw executes next; a drawable whose draw returned is drawn
\* again in the next frame.
NextStatement(d) == IF d.at = Len(StatementsOf(d.kind)) THEN 1 ELSE d.at + 1

\* The calls of the running call of draw start a new record.
Entering(ctx, d) ==
    IF NextStatement(d) = 1 THEN [ctx EXCEPT !.calls = <<>>] ELSE ctx

\* Faulty variant of Executed: the texture is left bound.  C26 must fail on
\* it.
Executed_TextureStays(ctx, d, st) ==
    IF st.method = "texture.unbind" THEN Entering(ctx, d)
    ELSE AfterCalls(Entering(ctx, d), CallsOf(d, st))

\* The context after statement st of draw.
Executed(ctx, d, st) == AfterCalls(Entering(ctx, d), CallsOf(d, st))

\* One statement of ShipGL.Floor.prototype.draw.
FloorDraw ==
    /\ drawable.kind = "Floor"
    /\ \E st \in { FloorStatements[NextStatement(drawable)] } :
          /\ context' = Executed(context, drawable, st)
          /\ drawable' = AfterStatement(drawable, st, NextStatement(drawable))
    /\ UNCHANGED <<modelVars, someBuffer, program, glProgram, light, app, thrown,
                   firstCall>>

\* One statement of ShipGL.SkyBox.prototype.draw.
SkyBoxDraw ==
    /\ drawable.kind = "SkyBox"
    /\ \E st \in { SkyBoxStatements[NextStatement(drawable)] } :
          /\ context' = Executed(context, drawable, st)
          /\ drawable' = AfterStatement(drawable, st, NextStatement(drawable))
    /\ UNCHANGED <<modelVars, someBuffer, program, glProgram, light, app, thrown,
                   firstCall>>

\* What the objects drawn before left in the context: any program, buffers and
\* textures of theirs or none, either texture unit active, any attribute
\* arrays enabled.
Contexts ==
    { [kind |-> "WebGLRenderingContext",
       currentProgram |-> before,
       arrayBuffer |-> before,
       elementArrayBuffer |-> before,
       activeTexture |-> unit,
       textures |-> [u \in TextureUnits |->
                        [TEXTURE_2D |-> IF u = unit THEN before ELSE "null",
                         TEXTURE_CUBE_MAP |-> IF u = unit THEN "null" ELSE before]],
       enabled |-> enabled,
       error |-> FALSE,
       calls |-> <<>>]
      : before \in {"null", "other"}, unit \in TextureUnits,
        enabled \in SUBSET AttributeIndices }

\* What gl.getAttribLocation can return for the attributes of the linked
\* program: the shaders are fixed and use every attribute they declare, so
\* each one has an index of its own.
LocationsOf(kind) ==
    { l \in [AttributesOf(kind) -> AttributeIndices] :
        \A a, b \in AttributesOf(kind) : a # b => l[a] # l[b] }

\* A floor or a sky box, constructed, in a context other objects were drawn
\* with.
InitDraw ==
    /\ NoModel
    /\ someBuffer = NewBuffer("ARRAY_BUFFER", "Float32Array", BYTES_PER_ELEMENT_F32)
    /\ program = NoObject
    /\ glProgram = NoObject
    /\ light = NoObject
    /\ app = NoObject
    /\ thrown = NothingThrown
    /\ firstCall = NoObject
    /\ drawable \in { NewDrawable(kind, JsLocations) :
                        kind \in {"Floor"},
                        JsLocations \in { [a \in AttributesOf("Floor") |-> JsNumber(l[a])]
                                          : l \in LocationsOf("Floor") } }
                    \cup
                    { NewDrawable(kind, JsLocations) :
                        kind \in {"SkyBox"},
                        JsLocations \in { [a \in AttributesOf("SkyBox") |-> JsNumber(l[a])]
                                          : l \in LocationsOf("SkyBox") } }
    /\ context \in Contexts

NextDraw ==
    \/ FloorDraw
    \/ SkyBoxDraw

SpecDraw == InitDraw /\ [][NextDraw]_vars

\* ------------------------------------------------------------------ claims
\* f[1] + ... + f[n]
RECURSIVE SumFn(_, _)
SumFn(f, n) == IF n = 0 THEN 0 ELSE f[n] + SumFn(f, n - 1)

AfterWritePass ==
    \/ pc = "write" /\ i = NumMeshes
    \/ pc \in {"textures", "normals", "extents", "done"}

AfterInitBuffers == pc \in {"textures", "normals", "extents", "done"}

Done == pc = "done"

MeshIds == 1..NumMeshes

VertexCount(m) == Len(meshes[m].vertexPositions) \div 3

\* The writes into the vertex buffer issued while mesh m (1-based) was processed.
VboWritesOf(m) ==
    SelectSeq(glCalls, LAMBDA c : c.op = "bufferSubData" /\ c.target = "vbo"
                                  /\ c.mesh = m - 1)

ElementsWritten(m) ==
    LET w == VboWritesOf(m) IN SumFn([e \in 1..Len(w) |-> w[e].count], Len(w))

\* stride * vertexCount of the meshes before mesh m
VertexElementsBefore(m) ==
    SumFn([e \in 1..(m - 1) |-> meshes[e].stride * VertexCount(e)], m - 1)

IndicesBefore(m) ==
    SumFn([e \in 1..(m - 1) |-> Len(meshes[e].indices)], m - 1)

\* C1: after initialize, a mesh has hasTexture exactly when its channel 0 of
\* texture coordinates is non-empty and its material names a diffuse texture;
\* its stride is 8 with hasTexture and 6 without.
C1_HasTextureAndStride ==
    Done => \A m \in MeshIds :
        LET mesh == meshes[m]
            tc0  == /\ mesh.vertexTexCoordinates # <<>>
                    /\ mesh.vertexTexCoordinates[1] # <<>>
            mat  == json.materials[mesh.materialIndex + 1]
        IN  /\ mesh.hasTexture <=> (tc0 /\ mat.diffuseTexture # <<>>)
            /\ mesh.stride = IF mesh.hasTexture THEN 8 ELSE 6

\* C1 witness: a finished model with a textured mesh of stride 8 and a mesh
\* that has texture coordinates but a textureless material.
C1_Witness ==
    /\ Done
    /\ \E m \in MeshIds : meshes[m].hasTexture /\ meshes[m].stride = 8
    /\ \E m \in MeshIds :
          /\ meshes[m].vertexTexCoordinates # <<>>
          /\ meshes[m].vertexTexCoordinates[1] # <<>>
          /\ json.materials[meshes[m].materialIndex + 1].diffuseTexture = <<>>
          /\ ~meshes[m].hasTexture

\* C2: when the write pass has finished, the write cursor equals the size the
\* size pass computed and vbo.allocate received.
C2_CursorEqualsVboSize ==
    AfterWritePass => (writeIdx = vboSize /\ writeIdx = vbo.length)

\* C3: every non-empty write of _initBuffers lies inside the allocated length
\* of its buffer.
C3_WritesInsideAllocation ==
    \A c \in 1..Len(glCalls) :
        (glCalls[c].op = "bufferSubData" /\ glCalls[c].count > 0) =>
            glCalls[c].offset + glCalls[c].count
                <= (IF glCalls[c].target = "vbo" THEN vbo.length ELSE ibo.length)

\* C4: the elements passed to vbo.write for a mesh number stride times its
\* vertex count.
C4_ElementsWrittenPerMesh ==
    AfterWritePass => \A m \in MeshIds :
        ElementsWritten(m) = meshes[m].stride * VertexCount(m)

\* Element e (0-based) of the store of the vertex buffer is v.
VboHolds(e, v) == e < Len(vbo.store) /\ vbo.store[e + 1] = v

\* C5: after _initBuffers the vertex buffer holds, for vertex k of every
\* mesh, its position at positionsOffset + k * stride, its normal at
\* normalsOffset + k * stride and, with hasTexture, its texture coordinate at
\* texCoordsOffset + k * stride.
C5_RoundTrip ==
    AfterInitBuffers => \A m \in MeshIds : \A k \in 0..(VertexCount(m) - 1) :
        LET mesh == meshes[m]
        IN  /\ \A c \in 0..2 :
                 VboHolds(mesh.positionsOffset + k * mesh.stride + c,
                          mesh.vertexPositions[3 * k + c + 1])
            /\ \A c \in 0..2 :
                 3 * k + c < Len(mesh.vertexNormals) =>
                 VboHolds(mesh.normalsOffset + k * mesh.stride + c,
                          mesh.vertexNormals[3 * k + c + 1])
            /\ mesh.hasTexture => \A c \in 0..1 :
                 2 * k + c < Len(mesh.vertexTexCoordinates[1]) =>
                 VboHolds(mesh.texCoordsOffset + k * mesh.stride + c,
                          mesh.vertexTexCoordinates[1][2 * k + c + 1])

\* C6: after _initBuffers positionsOffset of a mesh is the sum of stride times
\* vertex count of the meshes before it, normalsOffset is 3 further on, and
\* texCoordsOffset is 6 further on with hasTexture and absent without; the
\* vertex ranges follow each other without gap or overlap.
C6_Offsets ==
    AfterInitBuffers => \A m \in MeshIds :
        LET mesh == meshes[m]
        IN  /\ mesh.positionsOffset = VertexElementsBefore(m)
            /\ mesh.normalsOffset = mesh.positionsOffset + 3
            /\ mesh.texCoordsOffset =
                  IF mesh.hasTexture THEN mesh.positionsOffset + 6 ELSE Undefined
            /\ m > 1 => mesh.positionsOffset =
                  meshes[m - 1].positionsOffset
                  + meshes[m - 1].stride * VertexCount(m - 1)

\* C6 witness: a second mesh, textured, placed behind a first one that has
\* vertices.
C6_Witness ==
    /\ AfterInitBuffers
    /\ NumMeshes >= 2
    /\ VertexCount(1) > 0
    /\ meshes[2].hasTexture
    /\ meshes[2].positionsOffset > 0
    /\ ~meshes[1].hasTexture

\* C7: after _initBuffers a mesh with indices has indicesByteOffset equal to
\* twice its indicesOffset.
C7_IndicesByteOffset ==
    AfterInitBuffers => \A m \in MeshIds :
        meshes[m].hasIndices =>
            meshes[m].indicesByteOffset = 2 * meshes[m].indicesOffset

\* C7 witness: an indexed mesh behind another indexed mesh.
C7_Witness ==
    /\ AfterInitBuffers
    /\ \E m \in MeshIds : meshes[m].hasIndices /\ meshes[m].indicesOffset > 0

\* C8: after _initBuffers hasIndices marks the meshes with a non-empty index
\* list; indicesOffset is the number of indices of the meshes before; the
\* index buffer holds the list unchanged from indicesOffset on; the ranges of
\* different meshes are disjoint and the buffer is as long as all the lists.
C8_IndexBuffer ==
    AfterInitBuffers =>
        /\ \A m \in MeshIds :
              LET mesh == meshes[m]
              IN  /\ mesh.hasIndices <=> (mesh.indices # <<>>)
                  /\ mesh.hasIndices =>
                        /\ mesh.indicesOffset = IndicesBefore(m)
                        /\ mesh.indicesOffset + Len(mesh.indices) <= Len(ibo.store)
                        /\ \A e \in 1..Len(mesh.indices) :
                              ibo.store[mesh.indicesOffset + e] = mesh.indices[e]
        /\ \A m1 \in MeshIds : \A m2 \in MeshIds :
              (m1 < m2 /\ meshes[m1].hasIndices /\ meshes[m2].hasIndices) =>
                 meshes[m1].indicesOffset + Len(meshes[m1].indices)
                    <= meshes[m2].indicesOffset
        /\ ibo.length = IndicesBefore(NumMeshes + 1)
        /\ Len(ibo.store) = ibo.length

\* C8 witness: two indexed meshes, the second one holding index 65535.
C8_Witness ==
    /\ AfterInitBuffers
    /\ \E m1 \in MeshIds : \E m2 \in MeshIds :
          /\ m1 < m2
          /\ meshes[m1].hasIndices
          /\ meshes[m2].hasIndices
          /\ \E e \in 1..Len(meshes[m2].indices) : meshes[m2].indices[e] = 65535
          /\ ibo.store[meshes[m2].indicesOffset + 1] = 65535
\* The world-space points of the scene: every vertex of every mesh a node
\* references, transformed by the modelMatrix of that node.
WorldPoints ==
    UNION { UNION { { Mat4MultiplyVec3(json.nodes[n].modelMatrix,
                        SubSeq(json.meshes[json.nodes[n].meshIndices[j] + 1].vertexPositions,
                               3 * k + 1, 3 * k + 3)) :
                      k \in 0..((Len(json.meshes[json.nodes[n].meshIndices[j] + 1]
                                        .vertexPositions) \div 3) - 1) } :
                    j \in 1..Len(json.nodes[n].meshIndices) } :
            n \in 1..Len(json.nodes) }

Smallest(S) == CHOOSE x \in S : \A y \in S : x <= y
Largest(S) == CHOOSE x \in S : \A y \in S : x >= y

\* C9: after _computeExtents on a scene with at least one world-space point,
\* min and max hold, per axis, the smallest and the largest coordinate of the
\* world-space points.
C9_ExtentsAreMinMax ==
    (Done /\ WorldPoints # {}) => \A a \in 1..3 :
        /\ min[a] = Smallest({p[a] : p \in WorldPoints})
        /\ max[a] = Largest({p[a] : p \in WorldPoints})

\* C10: after _computeExtents on a scene without world-space points, min, max
\* and center are (0,0,0) and diagonal is 0.
C10_EmptySceneZero ==
    (Done /\ WorldPoints = {}) =>
        /\ min = <<0, 0, 0>>
        /\ max = <<0, 0, 0>>
        /\ center = <<0, 0, 0>>
        /\ diagonal = [sqrtOf |-> 0]

\* The real number a stored value stands for when it is added to a normal
\* one: a value of the magnitude of Number.MIN_VALUE is below the rounding
\* of every sum it enters.
Negligible(x) == IF IsTiny(x) THEN 0 ELSE x

\* C11: when _computeExtents has run, center is on every axis half the sum of
\* the stored min and max, and diagonal is the Euclidean distance between the
\* stored min and max (the square root of the sum of the squared differences;
\* a sum that exceeds Number.MAX_VALUE is Infinity, and half of
\* Number.MAX_VALUE is finite).
C11_CenterAndDiagonal ==
    Done =>
      /\ \A c \in 1..3 :
            IF Abs(min[c]) = Infinity \/ Abs(max[c]) = Infinity
            THEN center[c] = (IF Abs(min[c]) = Infinity THEN min[c] ELSE max[c])
            ELSE IF IsHuge(min[c]) \/ IsHuge(max[c])
            THEN 2 * center[c] = Negligible(min[c]) + Negligible(max[c])
                 /\ ~(IsHuge(min[c]) /\ IsHuge(max[c]))
            ELSE 2 * center[c] = Negligible(min[c]) + Negligible(max[c])
      /\ diagonal.sqrtOf =
            (IF \E c \in 1..3 : IsHuge(min[c]) \/ IsHuge(max[c])
             THEN Infinity
             ELSE (Negligible(max[1]) - Negligible(min[1])) * (Negligible(max[1]) - Negligible(min[1]))
                + (Negligible(max[2]) - Negligible(min[2])) * (Negligible(max[2]) - Negligible(min[2]))
                + (Negligible(max[3]) - Negligible(min[3])) * (Negligible(max[3]) - Negligible(min[3])))

\* A model with a transformed node whose box has a positive extent on the x
\* axis and a centre away from the origin.
C11_Witness ==
    /\ Done
    /\ \E n \in 1..Len(json.nodes) :
          /\ json.nodes[n].modelMatrix # Identity
          /\ json.nodes[n].meshIndices # <<>>
    /\ ~IsHuge(min[1]) /\ ~IsTiny(max[1])
    /\ min[1] < max[1]
    /\ center[1] # 0
    /\ diagonal.sqrtOf > 0

AfterNormalMatrices == pc \in {"extents", "done"}

\* The entry of row r and column c of a column-major 4x4 matrix.
At(m, r, c) == m[4 * (c - 1) + r]

\* inv * m is the identity matrix, entry by entry, in exact arithmetic.
IsInverseOf(inv, m) ==
    \A r \in 1..4 : \A c \in 1..4 :
        At(inv, r, 1) * At(m, 1, c) + At(inv, r, 2) * At(m, 2, c)
          + At(inv, r, 3) * At(m, 3, c) + At(inv, r, 4) * At(m, 4, c)
        = (IF r = c THEN Scale * Scale ELSE 0)

\* C12: after _initNormalMatrices the normalMatrix of every node is the
\* transpose of the inverse of its modelMatrix: an identity modelMatrix gives
\* an identity normalMatrix, the uniform scale by 2 gives the uniform scale by
\* 1/2, and the step leaves every modelMatrix as it was.
C12_NormalMatrices ==
    /\ [](AfterNormalMatrices =>
            \A n \in 1..Len(json.nodes) :
              LET node == json.nodes[n]
                  inv  == [e \in 1..16 |->
                             At(node.normalMatrix, ((e - 1) \div 4) + 1, ((e - 1) % 4) + 1)]
              IN  /\ Len(node.normalMatrix) = 16
                  /\ IsInverseOf(inv, node.modelMatrix)
                  /\ node.modelMatrix = Identity => node.normalMatrix = Identity
                  /\ node.modelMatrix = Scale2 =>
                        node.normalMatrix =
                          << Scale \div 2, 0, 0, 0,  0, Scale \div 2, 0, 0,
                             0, 0, Scale \div 2, 0,  0, 0, 0, Scale >>)
    /\ [][pc = "normals" =>
            /\ Len(json'.nodes) = Len(json.nodes)
            /\ \A n \in 1..Len(json.nodes) :
                  json'.nodes[n].modelMatrix = json.nodes[n].modelMatrix]_vars

\* A scene with a translated node, whose inverse is not symmetric, and a
\* scaled node, after the normal matrices were computed.
C12_Witness ==
    /\ AfterNormalMatrices
    /\ \E n \in 1..Len(json.nodes) : json.nodes[n].modelMatrix = Translate500
    /\ \E n \in 1..Len(json.nodes) : json.nodes[n].modelMatrix = Scale2

\* C13: when the modelMatrix of a node is singular, initialize stops with an
\* error in the normal-matrix step: it never gets past that step with some
\* matrix stored as the normalMatrix of the node.
C13_SingularSurfacesError ==
    \A n \in 1..Len(json.nodes) :
        Mat4Det(json.nodes[n].modelMatrix) = 0 => ~AfterNormalMatrices

\* C14: a scene with a mesh whose vertexNormals and vertexPositions differ in
\* length makes initialize fail before any buffer is allocated: no bufferData
\* call is made and initialize does not complete.
C14_MalformedFailsBeforeAllocation ==
    (\E m \in MeshIds :
        Len(meshes[m].vertexNormals) # Len(meshes[m].vertexPositions))
    => /\ \A c \in 1..Len(glCalls) : glCalls[c].op # "bufferData"
       /\ ~Done

AfterMaterialTextures == pc \in {"normals", "extents", "done"}

\* C15: after initialize a material has a texture exactly when its
\* diffuseTexture list is not empty, and every mesh with hasTexture refers to
\* a material that has a texture, in whatever order the materials are listed.
C15_TextureIffDiffuse ==
    AfterMaterialTextures =>
      /\ \A k \in 1..Len(json.materials) :
            json.materials[k].texture <=> Len(json.materials[k].diffuseTexture) > 0
      /\ \A m \in MeshIds :
            meshes[m].hasTexture => json.materials[meshes[m].materialIndex + 1].texture

\* A textured mesh whose material is listed second, after a material without
\* a diffuse texture.
C15_Witness ==
    /\ AfterMaterialTextures
    /\ \E m \in MeshIds :
          /\ meshes[m].hasTexture
          /\ meshes[m].materialIndex = 1
          /\ ~json.materials[1].texture
          /\ json.materials[2].texture

\* The buffer is bound and was allocated while bound: the store has the
\* length the buffer records.
AllocatedAndBound == someBuffer.bound /\ Len(someBuffer.store) = someBuffer.length

\* The step left length and byteCount alone, put values[1..] at the elements
\* index, index + 1, ... of the buffer and left every other element alone.
Overwrote(values, index) ==
    LET idx == IF index = Undefined THEN 0 ELSE index
    IN  /\ someBuffer'.length = someBuffer.length
        /\ someBuffer'.byteCount = someBuffer.byteCount
        /\ Len(someBuffer'.store) = Len(someBuffer.store)
        /\ \A k \in 1..Len(values) :
              /\ idx + k <= Len(someBuffer'.store)
              /\ someBuffer'.store[idx + k] = values[k]
        /\ \A e \in 1..Len(someBuffer.store) :
              (e <= idx \/ e > idx + Len(values))
                => someBuffer'.store[e] = someBuffer.store[e]

\* C16 as stated: every write(array, index) on an allocated, bound buffer
\* overwrites exactly the elements index .. index + array.length - 1 with the
\* values of array and leaves the other elements, length and byteCount
\* unchanged; an omitted index means 0.
C16_WriteOverwritesExactly ==
    [][\A array \in Arrays(someBuffer.ArrayType) : \A index \in Optional :
          (AllocatedAndBound /\ SomeBufferWriteCall(array, index))
            => Overwrote(array, index)]_vars

\* x is a number the element type holds as it is.
Holds(ArrayType, x) ==
    IF ArrayType = "Float32Array" THEN x = 0 \/ (Abs(x) >= Scale /\ Abs(x) <= F32Exact)
                                  ELSE x >= 0 /\ x < 65536

\* C16 amended: a write(array, index) of numbers the element type holds that
\* ends inside the buffer (index + array.length <= length) overwrites exactly
\* the elements index .. index + array.length - 1 with the values of array
\* and leaves the other elements, length and byteCount unchanged; an omitted
\* index means 0.
C16_WriteInsideOverwritesExactly ==
    [][\A array \in Arrays(someBuffer.ArrayType) : \A index \in Optional :
          ( /\ AllocatedAndBound
            /\ (IF index = Undefined THEN 0 ELSE index) + Len(array) <= someBuffer.length
            /\ \A k \in 1..Len(array) : Holds(someBuffer.ArrayType, array[k])
            /\ SomeBufferWriteCall(array, index) )
            => Overwrote(array, index)]_vars

\* The buffer of the documentation: [1, 2, 3] was stored, then write([4, 5], 1).
C16_Witness ==
    /\ AllocatedAndBound
    /\ someBuffer.store = << Elem(someBuffer.ArrayType, 1),
                             Elem(someBuffer.ArrayType, MaxLen + 1),
                             Elem(someBuffer.ArrayType, MaxLen + 2) >>

\* C17: createVertexBuffer(array, length) and createIndexBuffer(array,
\* length), for an array of numbers the element type holds and a length that
\* is omitted or positive, return an unbound buffer whose length is length
\* (array.length when omitted) and whose elements are the first length
\* elements of array.
C17_CreatedBufferHoldsPrefix ==
    [][\A T \in {"Float32Array", "Uint16Array"} :
       \A array \in Arrays(T) \ { << Wide(T) >> } :
       \A length \in Optional \ {0} :
          ( \/ T = "Float32Array" /\ CreateVertexBufferCall(array, length)
            \/ T = "Uint16Array" /\ CreateIndexBufferCall(array, length) )
          => LET len == IF length = Undefined THEN Len(array) ELSE length
             IN  /\ ~someBuffer'.bound
                 /\ someBuffer'.length = len
                 /\ Len(someBuffer'.store) = len
                 /\ \A k \in 1..len :
                       k <= Len(array) => someBuffer'.store[k] = array[k]]_vars

\* C18: whatever locations the context returns (attribute location 0
\* included), the location of a name is looked up at most once, and every
\* call that uses the name passes the location the context returned for it.
C18_LocationLookedUpOnce ==
    program # NoObject =>
      \A n \in AttributeNames \cup UniformNames :
        /\ glProgram.lookups[n] <= 1
        /\ glProgram.passed[n] \in {JsUndefined, glProgram.locations[n]}

\* The vector of a light: the direction of a directional light, the position
\* of a point light.
VectorOf(l) == IF l.kind = "DirectionalLight" THEN l.direction ELSE l.position

\* C19: isRotating is false after construction and after stopRotation and
\* true after startRotation, and every update called while isRotating is
\* false leaves the direction or position of the light as it was.
C19_UpdateOnlyWhileRotating ==
    /\ [](light # NoObject =>
            /\ light.lastCall \in {"new", "stopRotation"} => ~light.isRotating
            /\ light.lastCall = "startRotation" => light.isRotating)
    /\ [][(light # NoObject /\ ~light.isRotating /\ light'.lastCall = "update")
            => VectorOf(light') = VectorOf(light)]_vars

\* An update was called on a light that was stopped with a rotation stored
\* that would have moved it.
C19_Witness ==
    /\ light # NoObject
    /\ light.lastCall = "update"
    /\ ~light.isRotating
    /\ light.rotationMat # Mat4Create
    /\ [e \in 1..3 |-> Mat4MultiplyVec4(light.rotationMat, VectorOf(light))[e]]
         # [e \in 1..3 |-> VectorOf(light)[e]]

\* C20: the fourth component of a directional light's direction is 0 and the
\* fourth component of a point light's position is 1, after construction and
\* after every startRotation, update and stopRotation.
C20_FourthComponentLocked ==
    light # NoObject =>
      /\ light.kind = "DirectionalLight" => light.direction[4] = 0
      /\ light.kind = "PointLight" => light.position[4] = Scale

\* The point light built at (2, 3, 0), turned by 90 degrees about the z axis
\* through (1, 0, 0) by an update: it is at (-2, 1, 0).
C20_Witness ==
    /\ light # NoObject
    /\ light.kind = "PointLight"
    /\ light.lastCall = "update"
    /\ light.isRotating
    /\ light.rotationMat = ArbitraryRotation(ToRadians(90), <<Scale, 0, 0>>, <<0, 0, Scale>>)
    /\ light.position = << -2 * Scale, Scale, 0, Scale >>

\* ---------------------------------------------------------------- BaseApp
AbstractMethods ==
    { "ShipGL.Light.update", "ShipGL.Light.startRotation",
      "ShipGL.Light.stopRotation", "ShipGL.Model.draw",
      "ShipGL.BaseApp.initialize", "ShipGL.BaseApp.update",
      "ShipGL.BaseApp.draw", "ShipGL.BaseApp.handleHeldKeys" }

\* C21: a call of an abstract method -- update, startRotation or stopRotation
\* of a base light, draw of a base model, initialize, update, draw or
\* handleHeldKeys of a base application -- raises an exception and changes no
\* field of the light, the model or the application.
C21_AbstractMethodsThrow ==
    [][ thrown'.call \in AbstractMethods
          => /\ thrown'.message # "none"
             /\ UNCHANGED <<light, app, modelVars>> ]_vars

\* An abstract method of the application was called while a key was held and
\* a frame had run.
C21_Witness ==
    /\ thrown.call = "ShipGL.BaseApp.handleHeldKeys"
    /\ thrown.message = "ShipGL.BaseApp.handleHeldKeys is abstract!"
    /\ \E k \in KeyCodes : app.heldKeys[k] = JsBoolean(TRUE)
    /\ Len(app.frameTimes) > 0

\* The calls run made in its call number f.
FrameCalls(a, f) ==
    LET OfFrame(c) == c.frame = f
    IN  SelectSeq(a.calls, OfFrame)

\* The time of the frame before frame f; before the first frame the
\* application was constructed.
PreviousFrameTime(a, f) ==
    IF f = 1 THEN a.constructedAt ELSE a.frameTimes[f - 1]

\* C22: in every frame run calls update and then draw, once each, with the
\* same elapsed value, which is the time in milliseconds since the previous
\* frame, the first frame included; draw is not called when update threw, and
\* a frame is requested only when draw returned.
C22_RunCallsUpdateThenDraw ==
    app.kind # "none" =>
        /\ \A f \in 1..Len(app.frameTimes) :
              LET cs == FrameCalls(app, f)
                  elapsed == app.frameTimes[f] - PreviousFrameTime(app, f)
              IN  /\ Len(cs) \in {1, 2}
                  /\ cs[1].method = "update"
                  /\ cs[1].elapsed = elapsed
                  /\ (Len(cs) = 2) <=> (cs[1].threw = "none")
                  /\ Len(cs) = 2 => /\ cs[2].method = "draw"
                                    /\ cs[2].elapsed = elapsed
        /\ \A n \in 1..Len(app.calls) :
              \A m \in 1..n : app.calls[m].frame <= app.calls[n].frame
        /\ app.frameRequested =>
              /\ Len(app.calls) > 0
              /\ app.calls[Len(app.calls)].method = "draw"
              /\ app.calls[Len(app.calls)].threw = "none"
              /\ app.calls[Len(app.calls)].frame = Len(app.frameTimes)

\* JavaScript truthiness of an entry of heldKeys: undefined, true or false.
Truthy(v) == v.type = "boolean" /\ v.value

\* C23: heldKeys[k] is truthy exactly when the latest book-keeping call for
\* key k was handleKeyPressed(k), and a book-keeping call changes the entry of
\* one key at most.
C23_HeldIffLastPressed ==
    /\ [](app.kind # "none" =>
            \A k \in KeyCodes :
                Truthy(app.heldKeys[k]) <=> (app.lastKeyCall[k] = "handleKeyPressed"))
    /\ [][ thrown'.call \in {"ShipGL.BaseApp.handleKeyPressed",
                             "ShipGL.BaseApp.handleKeyReleased"}
             => \E k \in KeyCodes :
                   \A c \in KeyCodes \ {k} : app'.heldKeys[c] = app.heldKeys[c] ]_vars

\* Key 0 was pressed and released again, key 1 is held.
C23_Witness ==
    /\ app.kind # "none"
    /\ app.heldKeys[0] = JsBoolean(FALSE)
    /\ app.heldKeys[1] = JsBoolean(TRUE)
    /\ app.lastKeyCall[0] = "handleKeyReleased"

\* ------------------------------------------------- order of backend calls
\* The calls of the write pass among the backend calls.
IsWrite(c) == c.op = "bufferSubData"

\* C24: the backend calls of one _initBuffers run are: bind vbo, bind ibo,
\* allocate vbo and ibo once each with the sizes of the size pass, then only
\* writes, then unbind vbo and ibo.  Nothing is called during the size pass,
\* no allocation follows a write, and the writes go through the meshes in
\* declaration order, the index writes at the offsets the size pass gave.
C24_BackendCallOrder ==
    LET n == Len(glCalls)
        last == IF pc = "write" THEN n ELSE n - 2
    IN  /\ pc \in {"constructed", "size"} => glCalls = <<>>
        /\ pc \notin {"constructed", "size"} =>
              /\ n >= 4
              /\ glCalls[1] = GlBind("vbo", "rawBuffer")
              /\ glCalls[2] = GlBind("ibo", "rawBuffer")
              /\ glCalls[3] = GlCall("bufferData", "vbo", 0, vboSize, Undefined)
              /\ glCalls[4] = GlCall("bufferData", "ibo", 0, iboSize, Undefined)
              /\ \A c \in 5..last : IsWrite(glCalls[c])
              /\ \A c \in 5..last : \A d \in c..last :
                    glCalls[c].mesh <= glCalls[d].mesh
              /\ \A c \in 5..last :
                    glCalls[c].target = "ibo" =>
                        glCalls[c].offset = meshes[glCalls[c].mesh + 1].indicesOffset
              /\ pc # "write" =>
                    /\ n >= 6
                    /\ glCalls[n - 1] = GlBind("vbo", "null")
                    /\ glCalls[n] = GlBind("ibo", "null")

\* _initBuffers returned after writing two meshes, vertices and indices.
C24_Witness ==
    /\ pc = "textures"
    /\ \E c \in 1..Len(glCalls) :
          IsWrite(glCalls[c]) /\ glCalls[c].mesh = 0 /\ glCalls[c].target = "ibo"
    /\ \E c \in 1..Len(glCalls) :
          IsWrite(glCalls[c]) /\ glCalls[c].mesh = 1 /\ glCalls[c].target = "vbo"

\* -------------------------------------------------------------- termination
\* The vertices of all meshes: one per position triple.
TotalVertices ==
    SumFn([m \in 1..NumMeshes |-> Len(meshes[m].vertexPositions) \div 3], NumMeshes)

\* C25: initialize terminates on every scene description: every run reaches
\* the return of _computeExtents; the loop variable of the mesh loops never
\* passes the number of meshes, and the backend calls of the buffer passes
\* stay within three per vertex, one per mesh and the six binds, allocations
\* and unbinds.
C25_InitializeTerminates ==
    /\ <>(pc = "done")
    /\ [](i <= NumMeshes)
    /\ [](Len(glCalls) <= 6 + NumMeshes + 3 * TotalVertices)

\* initialize returned on a scene of two meshes with vertices, the second
\* one textured and written with three calls per vertex.
C25_Witness ==
    /\ pc = "done"
    /\ NumMeshes = 2
    /\ Len(meshes[1].vertexPositions) > 0
    /\ meshes[2].hasTexture
    /\ Len(glCalls) = 6 + NumMeshes + 3 * TotalVertices

\* ------------------------------------------------- bind, configure, draw, unbind
\* The part of draw a call belongs to: 1 bind and enable, 2 configure,
\* 3 draw, 4 disable, 5 unbind.
Phase(c) ==
    CASE c.op \in {"useProgram", "bindBuffer", "bindTexture"} ->
            IF c.object = "null" THEN 5 ELSE 1
      [] c.op \in {"activeTexture", "enableVertexAttribArray"} -> 1
      [] c.op \in {"uniform", "vertexAttribPointer"} -> 2
      [] c.op = "drawElements" -> 3
      [] c.op = "disableVertexAttribArray" -> 4

\* The binding points in the order the calls of one part bind or unbind them.
RECURSIVE TargetsOf(_, _)
TargetsOf(cs, phase) ==
    IF cs = <<>> THEN <<>>
    ELSE IF Phase(Head(cs)) = phase
              /\ Head(cs).op \in {"useProgram", "bindBuffer", "bindTexture"}
         THEN << Head(cs).target >> \o TargetsOf(Tail(cs), phase)
         ELSE TargetsOf(Tail(cs), phase)

Reversed(seq) == [n \in 1..Len(seq) |-> seq[Len(seq) + 1 - n]]

\* The program, both buffers and the texture of the drawable are bound.
OwnBound ==
    /\ context.currentProgram = "own"
    /\ context.arrayBuffer = "own"
    /\ context.elementArrayBuffer = "own"
    /\ context.textures[context.activeTexture][TextureTypeOf(drawable.kind)] = "own"

\* Nothing of the drawable is bound at any binding point.
NoneOwnBound ==
    /\ context.currentProgram # "own"
    /\ context.arrayBuffer # "own"
    /\ context.elementArrayBuffer # "own"
    /\ \A u \in TextureUnits :
          /\ context.textures[u].TEXTURE_2D # "own"
          /\ context.textures[u].TEXTURE_CUBE_MAP # "own"

\* The attribute arrays of the drawable's program.
OwnArrays == { drawable.locations[a].value : a \in AttributesOf(drawable.kind) }

DrawReturned == drawable.at = Len(StatementsOf(drawable.kind))

\* C26: the calls of Floor.draw and SkyBox.draw come in the order bind and
\* enable, configure, draw, disable, unbind; whenever a uniform or attribute
\* pointer was set or drawElements called, and nothing was disabled or
\* unbound yet, program, vbo, ibo and texture are bound and the attribute
\* arrays enabled; the unbinds come in the reverse order of the binds; and
\* when draw has returned nothing of the object is bound and none of its
\* attribute arrays is enabled.
C26_BindConfigureDrawUnbind ==
    drawable.kind # "none" =>
        LET cs == context.calls
        IN  /\ \A n \in 1..Len(cs) : \A m \in 1..n : Phase(cs[m]) <= Phase(cs[n])
            /\ (Len(cs) > 0 /\ Phase(cs[Len(cs)]) \in {2, 3}) =>
                    /\ OwnBound
                    /\ OwnArrays \subseteq context.enabled
            /\ \A n \in 1..Len(TargetsOf(cs, 5)) :
                    TargetsOf(cs, 5)[n] = Reversed(TargetsOf(cs, 1))[n]
            /\ DrawReturned =>
                    /\ Len(TargetsOf(cs, 5)) = 4
                    /\ Len(TargetsOf(cs, 1)) = 4
                    /\ Cardinality({ n \in 1..Len(cs) : cs[n].op = "drawElements" }) = 1
                    /\ NoneOwnBound
                    /\ OwnArrays \cap context.enabled = {}

\* Floor.draw returned in a context that had the objects of another drawable
\* bound, with texture unit 1 active: that unit still holds the other texture.
C26_Witness ==
    /\ drawable.kind = "Floor"
    /\ DrawReturned
    /\ Len(context.calls) = Len(FloorStatements) + 1
    /\ context.textures[1].TEXTURE_2D = "other"
    /\ context.activeTexture = 0

\* ------------------------------------------------------------- idempotence
\* The fields initialize attaches to a mesh.
MeshFields(m) ==
    << m.hasTexture, m.hasIndices, m.stride, m.positionsOffset, m.normalsOffset,
       m.texCoordsOffset, m.indicesOffset, m.indicesByteOffset >>

\* The parsed arrays of a scene description.
InputArrays(j) ==
    << [m \in 1..Len(j.meshes) |->
            << j.meshes[m].vertexPositions, j.meshes[m].vertexNormals,
               j.meshes[m].vertexTexCoordinates, j.meshes[m].indices >>],
       [n \in 1..Len(j.nodes) |-> j.nodes[n].modelMatrix] >>

\* C27: after a second call of initialize every per-mesh field, every node's
\* normalMatrix, min, max, center, diagonal and the lengths and contents of
\* vbo and ibo are what the first call left, and no step of either call
\* changes the parsed arrays of the scene description.
C27_InitializeIdempotent ==
    /\ []((firstCall # NoObject /\ pc = "done") =>
            /\ \A m \in 1..NumMeshes :
                  MeshFields(meshes[m]) = MeshFields(firstCall.json.meshes[m])
            /\ \A n \in 1..Len(json.nodes) :
                  json.nodes[n].normalMatrix = firstCall.json.nodes[n].normalMatrix
            /\ <<min, max, center, diagonal>>
                  = <<firstCall.min, firstCall.max, firstCall.center, firstCall.diagonal>>
            /\ <<vbo.length, vbo.store, ibo.length, ibo.store>>
                  = <<firstCall.vbo.length, firstCall.vbo.store,
                      firstCall.ibo.length, firstCall.ibo.store>>)
    /\ [][InputArrays(json') = InputArrays(json)]_vars

\* The second call returned on a scene of two meshes, the first indexed and
\* the second textured.
C27_Witness ==
    /\ firstCall # NoObject
    /\ pc = "done"
    /\ NumMeshes = 2
    /\ meshes[1].hasIndices
    /\ meshes[2].hasTexture
    /\ Len(vbo.store) > 0

====
